---- MODULE Spec2Model ----
(***************************************************************************)
(* Credential handling of the orbiter command line tool (utils/auth.ts):  *)
(* the credential file ~/.orbiter.json, the token validity resolver       *)
(* getValidTokens with refreshToken, authenticateWithApiKey and the OAuth  *)
(* login command with its local /callback endpoint.                        *)
(*                                                                         *)
(* Time is counted in minutes.  A timestamp string produced by             *)
(* Date.toISOString() for minute t is <<"iso", t>>; a created_at string    *)
(* that Date cannot parse is <<"invalid", 0>>.  One CLI process runs at a  *)
(* time; the clock is monotonic.                                           *)
(***************************************************************************)
EXTENDS Integers, FiniteSets, Sequences, TLC

VARIABLES
    now,          \* the wall clock, in minutes
    envApiKey,    \* process.env.ORBITER_API_KEY ("" when not set)
    tokenFile,    \* content of TOKEN_FILE
    login,        \* state of the login command (listener, timers)
    last,         \* record of the operation that ran last
    cache,        \* the template cache: template name -> cached directory
    tempDirs,     \* number of temporary clone directories left on disk
    project,      \* the project directory: upload target, orbiter.json
    remote        \* the hosted API and the upload service: site, pins

vars == <<now, envApiKey, tokenFile, login, last, cache, tempDirs, project,
         remote>>

\* What the operations on credentials leave alone, what the template
\* operations leave alone, and what the site operations leave alone.
nonAuthVars == <<cache, tempDirs, project, remote>>
nonTemplateVars == <<envApiKey, tokenFile, login, project, remote>>
nonSiteVars == <<login, cache, tempDirs>>

----------------------------------------------------------------------------
(* Program constants and bounds *)

ExpiryMinutes == 55        \* isTokenExpired: diffInMinutes > 55

InitClock == 56            \* clock value of the initial state
MaxClock == 59             \* the clock is not advanced beyond this value

Undefined == "<undefined>"
NaN == -1                  \* Date.getTime() of an invalid date

NoEnvKey == ""
EnvKeys == {NoEnvKey, "envkey"}
ApiKeys == {"key1", "key2"}
AccessTokens == {"at1", "at2"}
RefreshTokens == {"rt1", "rt2"}
Elapsed == {0, 1}          \* minutes that may pass inside one handler step

TimeoutMs == 60000         \* login: setTimeout(..., 60000)
SuccessDelayMs == 1000     \* /callback: setTimeout(..., 1000)
MaxLoginMs == 60000        \* no request is modelled later in a login run
NoTimer == -1              \* deadline of a timer that is not set

\* Milliseconds between two events of a login run: none, or half a second
\* less than the timeout.
WaitMs == {0, TimeoutMs - (SuccessDelayMs \div 2)}

----------------------------------------------------------------------------
(* Dates *)

ToISOString(t) == <<"iso", t>>

InvalidDateString == <<"invalid", 0>>

\* new Date(s).getTime()
DateGetTime(s) == IF s[1] = "iso" THEN s[2] ELSE NaN

----------------------------------------------------------------------------
(* TokenData objects and the credential file *)

\* An object literal { access_token, refresh_token, created_at, keyType };
\* a property whose value is undefined reads as a missing one and is
\* dropped by JSON.stringify, so it is left out of the object.
MkTokenData(accessToken, refreshTok, createdAt, keyType) ==
    IF refreshTok = Undefined
    THEN [access_token |-> accessToken, created_at |-> createdAt,
          keyType |-> keyType]
    ELSE [access_token |-> accessToken, refresh_token |-> refreshTok,
          created_at |-> createdAt, keyType |-> keyType]

HasProp(o, k) == k \in DOMAIN o

NoFile == [kind |-> "nofile"]
Garbage == [kind |-> "garbage"]          \* text that JSON.parse rejects

JSONStringify(o) == [kind |-> "json", obj |-> o]

\* JSON.parse of the text read from the file: a SyntaxError for Garbage.
JSONParse(file) ==
    IF file.kind = "json" THEN [ok |-> TRUE, value |-> file.obj]
    ELSE [ok |-> FALSE]

\* What a load or a resolver call yields: a TokenData object, null or
\* undefined (None), or an exception that escapes (Thrown).
Some(o) == [present |-> TRUE, threw |-> FALSE, tokens |-> o]
None == [present |-> FALSE, threw |-> FALSE]
Thrown == [present |-> FALSE, threw |-> TRUE]

MsgReadError == "Error reading token file:"
MsgNoTokens ==
    "No stored tokens found. Please login or authenticate with an API key."
MsgNoTokensRefresh == "No stored tokens found. Please login first."
MsgRefreshError == "Error refreshing token:"
MsgNoSession == "No session returned when refreshing token"

\* getStoredTokens without the try/catch: a parse error escapes.
getStoredTokens_NoCatch(file) ==
    IF file.kind = "nofile" THEN [value |-> None, log |-> <<>>]
    ELSE LET parsed == JSONParse(file) IN
         IF parsed.ok THEN [value |-> Some(parsed.value), log |-> <<>>]
         ELSE [value |-> Thrown, log |-> <<>>]

\* getStoredTokens: undefined when the file does not exist; the catch
\* block logs and returns undefined when reading or parsing throws.
getStoredTokens(file) ==
    IF file.kind = "nofile" THEN [value |-> None, log |-> <<>>]
    ELSE LET parsed == JSONParse(file) IN
         IF parsed.ok THEN [value |-> Some(parsed.value), log |-> <<>>]
         ELSE [value |-> None, log |-> <<MsgReadError>>]

\* storeTokens: the file content written at minute t
storeTokens(accessToken, refreshTok, keyType, t) ==
    JSONStringify(MkTokenData(accessToken, refreshTok, ToISOString(t), keyType))

\* isTokenExpired with a threshold of 50 minutes.
isTokenExpired_Threshold50(tokenData, t) ==
    IF HasProp(tokenData, "keyType") /\ tokenData.keyType = "apikey"
    THEN FALSE
    ELSE LET tokenDate == IF HasProp(tokenData, "created_at")
                          THEN DateGetTime(tokenData.created_at)
                          ELSE NaN
         IN  IF tokenDate = NaN THEN FALSE
             ELSE (t - tokenDate) > 50

\* isTokenExpired with the difference taken in hours instead of minutes.
isTokenExpired_InHours(tokenData, t) ==
    IF HasProp(tokenData, "keyType") /\ tokenData.keyType = "apikey"
    THEN FALSE
    ELSE LET tokenDate == IF HasProp(tokenData, "created_at")
                          THEN DateGetTime(tokenData.created_at)
                          ELSE NaN
         IN  IF tokenDate = NaN THEN FALSE
             ELSE ((t - tokenDate) \div 60) > ExpiryMinutes

isTokenExpired(tokenData, t) ==
    IF HasProp(tokenData, "keyType") /\ tokenData.keyType = "apikey"
    THEN FALSE
    ELSE LET tokenDate == IF HasProp(tokenData, "created_at")
                          THEN DateGetTime(tokenData.created_at)
                          ELSE NaN
         IN  IF tokenDate = NaN THEN FALSE
             ELSE (t - tokenDate) > ExpiryMinutes

----------------------------------------------------------------------------
(* refreshToken and getValidTokens *)

\* What supabase.auth.refreshSession may answer.
Sessions ==
    {[kind |-> "session", access_token |-> "at1", refresh_token |-> "rt1"],
     [kind |-> "session", access_token |-> "at2", refresh_token |-> "rt2"]}

NotAsked == [kind |-> "notasked"]

RefreshOutcomes ==
    Sessions
    \cup {[kind |-> "error"], [kind |-> "nosession"], [kind |-> "throws"]}

\* The outcome of a resolver call: the value returned, the file afterwards,
\* the number of refreshSession calls, of loads and of writes of the file,
\* the lines printed, and the clock when it returns.
Outcome(result, file, calls, reads, writes, log, t) ==
    [result |-> result, file |-> file, refreshCalls |-> calls,
     reads |-> reads, writes |-> writes, log |-> log, end |-> t]

\* refreshToken storing the refresh token of the old record again.
refreshToken_KeepsOldRefreshToken(file, t, prov, d1, d2) ==
    LET load == getStoredTokens(file)
        storedTokens == load.value
    IN
    IF storedTokens.threw
    THEN Outcome(Thrown, file, 0, 1, 0, load.log, t)
    ELSE IF ~storedTokens.present
    THEN Outcome(None, file, 0, 1, 0, load.log \o <<MsgNoTokensRefresh>>, t)
    ELSE IF ~isTokenExpired(storedTokens.tokens, t)
    THEN Outcome(storedTokens, file, 0, 1, 0, load.log, t)
    ELSE IF prov.kind \in {"error", "throws"}
    THEN Outcome(None, file, 1, 1, 0, load.log \o <<MsgRefreshError>>, t + d1)
    ELSE IF prov.kind = "nosession"
    THEN Outcome(None, file, 1, 1, 0, load.log \o <<MsgNoSession>>, t + d1)
    ELSE LET old == IF HasProp(storedTokens.tokens, "refresh_token")
                    THEN storedTokens.tokens.refresh_token ELSE Undefined
             newTokens == MkTokenData(prov.access_token, old,
                                      ToISOString(t + d1), "oauth")
         IN  Outcome(Some(newTokens),
                     storeTokens(newTokens.access_token, old, "oauth",
                                 t + d1 + d2),
                     1, 1, 1, load.log, t + d1 + d2)

\* refreshToken handing back the expired record when the refresh fails.
refreshToken_ReturnsStaleOnError(file, t, prov, d1, d2) ==
    LET load == getStoredTokens(file)
        storedTokens == load.value
    IN
    IF storedTokens.threw
    THEN Outcome(Thrown, file, 0, 1, 0, load.log, t)
    ELSE IF ~storedTokens.present
    THEN Outcome(None, file, 0, 1, 0, load.log \o <<MsgNoTokensRefresh>>, t)
    ELSE IF ~isTokenExpired(storedTokens.tokens, t)
    THEN Outcome(storedTokens, file, 0, 1, 0, load.log, t)
    ELSE IF prov.kind \in {"error", "throws"}
    THEN Outcome(storedTokens, file, 1, 1, 0,
                 load.log \o <<MsgRefreshError>>, t + d1)
    ELSE IF prov.kind = "nosession"
    THEN Outcome(storedTokens, file, 1, 1, 0,
                 load.log \o <<MsgNoSession>>, t + d1)
    ELSE LET newTokens == MkTokenData(prov.access_token, prov.refresh_token,
                                      ToISOString(t + d1), "oauth")
         IN  Outcome(Some(newTokens),
                     storeTokens(newTokens.access_token,
                                 newTokens.refresh_token, "oauth",
                                 t + d1 + d2),
                     1, 1, 1, load.log, t + d1 + d2)

\* refreshToken() entered at minute t; the provider answers after d1
\* minutes, storeTokens runs d2 minutes after newTokens was built.
refreshToken(file, t, prov, d1, d2) ==
    LET load == getStoredTokens(file)
        storedTokens == load.value
    IN
    IF storedTokens.threw
    THEN Outcome(Thrown, file, 0, 1, 0, load.log, t)
    ELSE IF ~storedTokens.present
    THEN Outcome(None, file, 0, 1, 0, load.log \o <<MsgNoTokensRefresh>>, t)
    ELSE IF ~isTokenExpired(storedTokens.tokens, t)
    THEN Outcome(storedTokens, file, 0, 1, 0, load.log, t)
    ELSE IF prov.kind \in {"error", "throws"}
    THEN Outcome(None, file, 1, 1, 0, load.log \o <<MsgRefreshError>>, t + d1)
    ELSE IF prov.kind = "nosession"
    THEN Outcome(None, file, 1, 1, 0, load.log \o <<MsgNoSession>>, t + d1)
    ELSE LET newTokens == MkTokenData(prov.access_token, prov.refresh_token,
                                      ToISOString(t + d1), "oauth")
         IN  Outcome(Some(newTokens),
                     storeTokens(newTokens.access_token,
                                 newTokens.refresh_token, "oauth",
                                 t + d1 + d2),
                     1, 1, 1, load.log, t + d1 + d2)

\* getValidTokens building a new record for a stored API key, as it does
\* for the environment key.
getValidTokens_RebuildsApiKey(env, file, t, prov, d0, d1, d2) ==
    IF env # NoEnvKey
    THEN Outcome(Some(MkTokenData(env, Undefined, ToISOString(t), "apikey")),
                 file, 0, 0, 0, <<>>, t)
    ELSE LET load == getStoredTokens(file)
             storedTokens == load.value
         IN
         IF storedTokens.threw
         THEN Outcome(Thrown, file, 0, 1, 0, load.log, t)
         ELSE IF ~storedTokens.present
         THEN Outcome(None, file, 0, 1, 0, load.log \o <<MsgNoTokens>>, t)
         ELSE IF HasProp(storedTokens.tokens, "keyType")
                 /\ storedTokens.tokens.keyType = "apikey"
         THEN Outcome(Some(MkTokenData(storedTokens.tokens.access_token,
                                       Undefined, ToISOString(t), "apikey")),
                      file, 0, 1, 0, load.log, t)
         ELSE IF isTokenExpired(storedTokens.tokens, t)
         THEN LET r == refreshToken(file, t + d0, prov, d1, d2)
              IN  [r EXCEPT !.reads = r.reads + 1,
                            !.log = load.log \o r.log]
         ELSE Outcome(storedTokens, file, 0, 1, 0, load.log, t)

\* getValidTokens looking at the environment only when nothing is stored.
getValidTokens_FileFirst(env, file, t, prov, d0, d1, d2) ==
    LET load == getStoredTokens(file)
        storedTokens == load.value
    IN
    IF storedTokens.threw
    THEN Outcome(Thrown, file, 0, 1, 0, load.log, t)
    ELSE IF ~storedTokens.present
    THEN IF env # NoEnvKey
         THEN Outcome(Some(MkTokenData(env, Undefined, ToISOString(t),
                                       "apikey")),
                      file, 0, 1, 0, load.log, t)
         ELSE Outcome(None, file, 0, 1, 0, load.log \o <<MsgNoTokens>>, t)
    ELSE IF HasProp(storedTokens.tokens, "keyType")
            /\ storedTokens.tokens.keyType = "apikey"
    THEN Outcome(storedTokens, file, 0, 1, 0, load.log, t)
    ELSE IF isTokenExpired(storedTokens.tokens, t)
    THEN LET r == refreshToken(file, t + d0, prov, d1, d2)
         IN  [r EXCEPT !.reads = r.reads + 1, !.log = load.log \o r.log]
    ELSE Outcome(storedTokens, file, 0, 1, 0, load.log, t)

\* getValidTokens() entered at minute t; d0 minutes pass before it enters
\* refreshToken.
getValidTokens(env, file, t, prov, d0, d1, d2) ==
    IF env # NoEnvKey
    THEN Outcome(Some(MkTokenData(env, Undefined, ToISOString(t), "apikey")),
                 file, 0, 0, 0, <<>>, t)
    ELSE LET load == getStoredTokens(file)
             storedTokens == load.value
         IN
         IF storedTokens.threw
         THEN Outcome(Thrown, file, 0, 1, 0, load.log, t)
         ELSE IF ~storedTokens.present
         THEN Outcome(None, file, 0, 1, 0, load.log \o <<MsgNoTokens>>, t)
         ELSE IF HasProp(storedTokens.tokens, "keyType")
                 /\ storedTokens.tokens.keyType = "apikey"
         THEN Outcome(storedTokens, file, 0, 1, 0, load.log, t)
         ELSE IF isTokenExpired(storedTokens.tokens, t)
         THEN LET r == refreshToken(file, t + d0, prov, d1, d2)
              IN  [r EXCEPT !.reads = r.reads + 1,
                            !.log = load.log \o r.log]
         ELSE Outcome(storedTokens, file, 0, 1, 0, load.log, t)

----------------------------------------------------------------------------
(* The template cache (utils/template.ts) *)

StaleHours == 24           \* isCacheStale: hoursSinceFetch > 24
MinutesPerHour == 60

TEMPLATES_REPO_URL == "https://github.com/orbiterhost/orbiter-templates"

\* The directories under templates/general of the template repository, as
\* the listing of their entries in the order the contents API returns
\* them.  "missing" is a template name that the repository does not have;
\* the template mono has a subdirectory that is named like the template
\* flat; bhvr is the monorepo template with a client and a server.
RemoteTemplates ==
    [flat |-> <<[name |-> ".gitignore", type |-> "file"],
                [name |-> "index.html", type |-> "file"],
                [name |-> "package.json", type |-> "file"]>>,
     mono |-> <<[name |-> "package.json", type |-> "file"],
                [name |-> "flat", type |-> "dir",
                 children |-> <<[name |-> "app.js", type |-> "file"]>>]>>,
     bhvr |-> <<[name |-> "package.json", type |-> "file"],
                [name |-> "client", type |-> "dir",
                 children |-> <<[name |-> "index.html", type |-> "file"]>>],
                [name |-> "server", type |-> "dir",
                 children |-> <<[name |-> "index.ts", type |-> "file"]>>]>>]

TemplateNames == {"flat", "mono", "bhvr", "missing"}

HiddenNames == {".gitignore"}      \* names that the shell pattern * skips

\* The files below a listing, as paths relative to it.
RECURSIVE TreeFiles(_)
TreeFiles(entries) ==
    IF entries = <<>> THEN {}
    ELSE LET e == Head(entries)
             here == IF e.type = "file" THEN {<<e.name>>}
                     ELSE {<<e.name>> \o p : p \in TreeFiles(e.children)}
         IN  here \cup TreeFiles(Tail(entries))

\* A directory of the cache: whether it exists, the template files in it
\* (paths relative to it) and the content of its .cache-meta.json.
NoDir == [exists |-> FALSE, files |-> {}, meta |-> NoFile]

MkMetadata(fetchedAt, templateName) ==
    [fetchedAt |-> fetchedAt, templateName |-> templateName,
     source |-> TEMPLATES_REPO_URL]

\* Mutant: metadata that cannot be read counts as fresh.
isCacheStale_UnreadableIsFresh(meta, t) ==
    LET parsed == JSONParse(meta) IN
    IF ~parsed.ok THEN FALSE
    ELSE LET fetchedAt == IF HasProp(parsed.value, "fetchedAt")
                          THEN DateGetTime(parsed.value.fetchedAt)
                          ELSE NaN
         IN  IF fetchedAt = NaN THEN FALSE
             ELSE (t - fetchedAt) > StaleHours * MinutesPerHour

\* isCacheStale at minute t; hoursSinceFetch > 24 in minutes.
isCacheStale(meta, t) ==
    LET parsed == JSONParse(meta) IN
    IF ~parsed.ok THEN TRUE
    ELSE LET fetchedAt == IF HasProp(parsed.value, "fetchedAt")
                          THEN DateGetTime(parsed.value.fetchedAt)
                          ELSE NaN
         IN  IF fetchedAt = NaN THEN FALSE
             ELSE (t - fetchedAt) > StaleHours * MinutesPerHour

needsFetch(entry, t) ==
    \/ ~entry.exists
    \/ entry.meta.kind = "nofile"
    \/ isCacheStale(entry.meta, t)

\* cp -r <clone>/templates/general/<name>/* <cache>/<name>: the entries
\* that * matches, copied with all they contain; it fails when the
\* directory is not in the clone.
CopiedFiles(templateName) ==
    {p \in TreeFiles(RemoteTemplates[templateName]) :
        p[1] \notin HiddenNames}

\* downloadTemplateFiles(baseUrl, targetPath): targetPath is the path below
\* the cache root, inDir the same path below the template directory.  The
\* listing requested is the one of templates/general/<basename of
\* targetPath>.  The result tells whether the call returned (ok) or threw,
\* the files written and the number of requests made.
RECURSIVE downloadTemplateFiles(_, _, _)
RECURSIVE DownloadEntries(_, _, _, _)

DownloadEntries(entries, targetPath, inDir, apiUp) ==
    IF entries = <<>> THEN [ok |-> TRUE, files |-> {}, requests |-> 0]
    ELSE LET file == Head(entries)
             first == IF file.type = "file"
                      THEN [ok |-> TRUE, files |-> {inDir \o <<file.name>>},
                            requests |-> 1]
                      ELSE downloadTemplateFiles(targetPath \o <<file.name>>,
                                                 inDir \o <<file.name>>, apiUp)
         IN  IF ~first.ok THEN first
             ELSE LET rest == DownloadEntries(Tail(entries), targetPath,
                                              inDir, apiUp)
                  IN  [ok |-> rest.ok,
                       files |-> first.files \cup rest.files,
                       requests |-> first.requests + rest.requests]

downloadTemplateFiles(targetPath, inDir, apiUp) ==
    LET basename == targetPath[Len(targetPath)] IN
    IF ~apiUp \/ basename \notin DOMAIN RemoteTemplates
    THEN [ok |-> FALSE, files |-> {}, requests |-> 1]
    ELSE LET r == DownloadEntries(RemoteTemplates[basename], targetPath,
                                  inDir, apiUp)
         IN  [r EXCEPT !.requests = r.requests + 1]

MsgTemplateNotFound(templateName) ==
    <<"Template '", templateName, "' not found or couldn't be fetched">>

MsgListingFailed == <<"GitHub API error">>

\* Mutant: the fallback path leaves the metadata file unwritten.
fetchTemplate_NoMetadataOnFallback(templateName, entry, t, clone, cp, apiUp, listOk, d) ==
    IF ~needsFetch(entry, t)
    THEN [entry |-> entry, returned |-> TRUE, error |-> <<>>,
          fetched |-> FALSE, clones |-> 0, fallbacks |-> 0, requests |-> 0,
          downloaded |-> FALSE, lists |-> 0, listed |-> FALSE,
          tempLeft |-> 0, end |-> t]
    ELSE LET cloned == /\ clone = "ok"
                       /\ cp = "ok"
                       /\ templateName \in DOMAIN RemoteTemplates
             down == downloadTemplateFiles(<<templateName>>, <<>>, apiUp)
             files == IF cloned THEN CopiedFiles(templateName)
                      ELSE down.files
             ok == cloned \/ down.ok
         IN  [entry |-> [exists |-> TRUE, files |-> files,
                         meta |-> IF cloned
                                  THEN JSONStringify(
                                         MkMetadata(ToISOString(t + d),
                                                    templateName))
                                  ELSE NoFile],
              returned |-> ok,
              error |-> IF ok THEN <<>>
                        ELSE MsgTemplateNotFound(templateName),
              fetched |-> TRUE,
              clones |-> 1,
              fallbacks |-> IF cloned THEN 0 ELSE 1,
              requests |-> IF cloned THEN 0 ELSE down.requests,
              downloaded |-> ~cloned /\ down.ok,
              lists |-> IF ok THEN 0 ELSE 1,
              listed |-> ~ok /\ listOk,
              tempLeft |-> IF cloned THEN 0 ELSE 1,
              end |-> t + d]

\* Mutant: a failure of the listing replaces the error of the fetch.
fetchTemplate_ListingErrorEscapes(templateName, entry, t, clone, cp, apiUp, listOk, d) ==
    IF ~needsFetch(entry, t)
    THEN [entry |-> entry, returned |-> TRUE, error |-> <<>>,
          fetched |-> FALSE, clones |-> 0, fallbacks |-> 0, requests |-> 0,
          downloaded |-> FALSE, lists |-> 0, listed |-> FALSE,
          tempLeft |-> 0, end |-> t]
    ELSE LET cloned == /\ clone = "ok"
                       /\ cp = "ok"
                       /\ templateName \in DOMAIN RemoteTemplates
             down == downloadTemplateFiles(<<templateName>>, <<>>, apiUp)
             files == IF cloned THEN CopiedFiles(templateName)
                      ELSE down.files
             ok == cloned \/ down.ok
         IN  [entry |-> [exists |-> TRUE, files |-> files,
                         meta |-> IF ok
                                  THEN JSONStringify(
                                         MkMetadata(ToISOString(t + d),
                                                    templateName))
                                  ELSE NoFile],
              returned |-> ok,
              error |-> IF ok THEN <<>>
                        ELSE IF listOk
                             THEN MsgTemplateNotFound(templateName)
                             ELSE MsgListingFailed,
              fetched |-> TRUE,
              clones |-> 1,
              fallbacks |-> IF cloned THEN 0 ELSE 1,
              requests |-> IF cloned THEN 0 ELSE down.requests,
              downloaded |-> ~cloned /\ down.ok,
              lists |-> IF ok THEN 0 ELSE 1,
              listed |-> ~ok /\ listOk,
              tempLeft |-> IF cloned THEN 0 ELSE 1,
              end |-> t + d]

\* fetchTemplate(templateName) entered at minute t with the cache directory
\* entry.  clone and cp tell whether git clone and cp succeed, apiUp
\* whether the contents API answers, listOk whether listAvailableTemplates
\* succeeds; the download takes d minutes.
fetchTemplate(templateName, entry, t, clone, cp, apiUp, listOk, d) ==
    IF ~needsFetch(entry, t)
    THEN [entry |-> entry, returned |-> TRUE, error |-> <<>>,
          fetched |-> FALSE, clones |-> 0, fallbacks |-> 0, requests |-> 0,
          downloaded |-> FALSE, lists |-> 0, listed |-> FALSE,
          tempLeft |-> 0, end |-> t]
    ELSE LET cloned == /\ clone = "ok"
                       /\ cp = "ok"
                       /\ templateName \in DOMAIN RemoteTemplates
             down == downloadTemplateFiles(<<templateName>>, <<>>, apiUp)
             files == IF cloned THEN CopiedFiles(templateName)
                      ELSE down.files
             ok == cloned \/ down.ok
         IN  [entry |-> [exists |-> TRUE, files |-> files,
                         meta |-> IF ok
                                  THEN JSONStringify(
                                         MkMetadata(ToISOString(t + d),
                                                    templateName))
                                  ELSE NoFile],
              returned |-> ok,
              error |-> IF ok THEN <<>>
                        ELSE MsgTemplateNotFound(templateName),
              fetched |-> TRUE,
              clones |-> 1,
              fallbacks |-> IF cloned THEN 0 ELSE 1,
              requests |-> IF cloned THEN 0 ELSE down.requests,
              downloaded |-> ~cloned /\ down.ok,
              lists |-> IF ok THEN 0 ELSE 1,
              listed |-> ~ok /\ listOk,
              tempLeft |-> IF cloned THEN 0 ELSE 1,
              end |-> t + d]

----------------------------------------------------------------------------
(* Sites: upload, create, update *)

MsgPleaseLogin == "Please login first"
MsgNotAuthenticated == "Not authenticated"
MsgNeedsIndexHtml == "The upload must contain an index.html file"
MsgNoActiveSession == "No active session found"
MsgSiteCreated == "Site created"
MsgSiteUpdated == "Site updated"
MsgProblemCreating == "Problem creating site:"
MsgProblemUpdating == "Problem updating site: "

\* The requests an operation can send: to the hosted API, and to the
\* upload service.
ReqUploadKey == "POST /keys/upload_key"
ReqUpload == "upload"
ReqCreate == "POST /sites"
ReqFindSite == "GET /sites?domain"
ReqUpdate == "PUT /sites/id"

\* String.prototype.toLowerCase on the file names of the model.
ToLowerCase(s) ==
    CASE s = "INDEX.HTML" -> "index.html"
      [] s = "Index.html" -> "index.html"
      [] OTHER -> s

\* What can be at the path handed to uploadSite: nothing, a file, or a
\* directory given by the relative paths of its files (a path of length 1
\* is a file directly inside it).
NoTarget == [kind |-> "missing", name |-> "dist", files |-> {}]
FileTarget(name) == [kind |-> "file", name |-> name, files |-> {}]
DirTarget(files) == [kind |-> "dir", name |-> "dist", files |-> files]

Targets ==
    {NoTarget,
     FileTarget("index.html"), FileTarget("INDEX.HTML"),
     FileTarget("about.html"),
     DirTarget({<<"index.html">>, <<"style.css">>}),
     DirTarget({<<"about.html">>}),
     DirTarget({<<"site", "index.html">>})}

\* Mutant: an index.html anywhere below the directory is enough.
hasIndexHtml_AnyDepth(target) ==
    IF target.kind = "file"
    THEN ToLowerCase(target.name) = "index.html"
    ELSE IF target.kind = "dir"
    THEN \E f \in target.files : f[Len(f)] = "index.html"
    ELSE FALSE

\* stats.isFile(): basename compared in lower case; stats.isDirectory():
\* existsSync(<dir>/index.html).
hasIndexHtml(target) ==
    IF target.kind = "file"
    THEN ToLowerCase(target.name) = "index.html"
    ELSE IF target.kind = "dir"
    THEN <<"index.html">> \in target.files
    ELSE FALSE

\* The content identifier the upload service gives to an upload.
CidOf(target) == <<"cid", target.kind, target.name, target.files>>

\* The run of an operation: the value returned, the token file and the
\* clock when it ends, the requests sent in order, the lines shown, the
\* content pinned at the upload service, and whether the first call of the
\* token resolver yielded a credential.
Run(ret, file, t, requests, out, pins, authed) ==
    [ret |-> ret, file |-> file, end |-> t, requests |-> requests,
     out |-> out, pins |-> pins, authed |-> authed]

IsOAuth(tokens) == HasProp(tokens, "keyType") /\ tokens.keyType = "oauth"

\* uploadSite(filePath) entered at minute t.  session tells whether
\* getSession yields a session, keyApi how the hosted API answers the
\* request for an upload key ("ok", "reject" for a status that is not ok,
\* "down" when fetch throws), pin
\* whether the upload service accepts the files; the upload takes du
\* minutes.
uploadSite(env, file, t, target, prov, session, keyApi, pin, du) ==
    LET resolved(tk) ==
        IF tk.result.threw
        THEN Run([error |-> "exception"], tk.file, tk.end, <<>>, tk.log, {},
                 FALSE)
        ELSE IF ~tk.result.present
        THEN Run([error |-> MsgNotAuthenticated], tk.file, tk.end, <<>>,
                 tk.log \o <<MsgPleaseLogin>>, {}, FALSE)
        ELSE IF target.kind = "missing"
        THEN Run([error |-> "ENOENT"], tk.file, tk.end, <<>>, tk.log, {}, TRUE)
        ELSE IF ~hasIndexHtml(target)
        THEN Run([error |-> MsgNeedsIndexHtml], tk.file, tk.end, <<>>, tk.log,
                 {}, TRUE)
        ELSE IF IsOAuth(tk.result.tokens) /\ session # "ok"
        THEN Run([error |-> MsgNoActiveSession], tk.file, tk.end, <<>>, tk.log,
                 {}, TRUE)
        ELSE IF keyApi = "down"
        THEN Run([error |-> "fetch failed"], tk.file, tk.end, <<ReqUploadKey>>,
                 tk.log, {}, TRUE)
        ELSE IF keyApi = "ok" /\ pin = "ok"
        THEN Run([data |-> [IpfsHash |-> CidOf(target)]], tk.file, tk.end + du,
                 <<ReqUploadKey, ReqUpload>>, tk.log, {CidOf(target)}, TRUE)
        ELSE Run([error |-> "upload failed"], tk.file, tk.end + du,
                 <<ReqUploadKey, ReqUpload>>, tk.log, {}, TRUE)
    IN  resolved(getValidTokens(env, file, t, prov, 0, 0, 0))

\* The one site of the model at the hosted API, and its absence.
SiteId == "s1"
SiteDomain == "alpha"
NoSite == [exists |-> FALSE]
MkSite(cid) == [exists |-> TRUE, id |-> SiteId, domain |-> SiteDomain,
                cid |-> cid]

\* normalizeDomain(domain).subdomain
Subdomain(domain) ==
    IF domain = "alpha.orbiter.website" THEN "alpha" ELSE domain

\* The run of createSite or updateSite after the run up of uploadSite.
SiteRun(up, ret, file, t, requests, out, effect) ==
    [ret |-> ret, file |-> file, end |-> t,
     requests |-> up.requests \o requests, out |-> up.out \o out,
     pins |-> up.pins, authed |-> up.authed, effect |-> effect,
     upload |-> up.ret]

\* createSite(path, domain, useExistingSpinner) entered at minute t with
\* the site at the hosted API; api is the answer to the create request.
createSite(env, file, t, target, domain, quiet, site, prov, session, keyApi, pin, du, api) ==
    LET uploaded(up) ==
            LET resolved(tk) ==
                IF HasProp(up.ret, "error")
                THEN SiteRun(up, FALSE, up.file, up.end, <<>>,
                             <<<<"Error: ", up.ret.error>>>>, "none")
                ELSE IF tk.result.threw
                THEN SiteRun(up, FALSE, tk.file, tk.end, <<>>, tk.log \o <<"exception">>,
                             "none")
                ELSE IF ~tk.result.present
                THEN SiteRun(up, FALSE, tk.file, tk.end, <<>>,
                             tk.log \o <<MsgPleaseLogin>>, "none")
                ELSE IF IsOAuth(tk.result.tokens) /\ session # "ok"
                THEN SiteRun(up, FALSE, tk.file, tk.end, <<>>,
                             tk.log \o <<MsgNoActiveSession>>, "none")
                ELSE IF api = "down"
                THEN SiteRun(up, FALSE, tk.file, tk.end, <<ReqCreate>>,
                             tk.log \o <<"exception">>, "none")
                ELSE IF api = "ok" /\ ~site.exists /\ Subdomain(domain) = SiteDomain
                THEN SiteRun(up, TRUE, tk.file, tk.end, <<ReqCreate>>,
                             tk.log \o (IF quiet THEN <<>> ELSE <<MsgSiteCreated>>),
                             "created")
                ELSE SiteRun(up, FALSE, tk.file, tk.end, <<ReqCreate>>,
                             tk.log \o <<MsgProblemCreating>>, "none")
            IN  resolved(getValidTokens(env, up.file, up.end, prov, 0, 0, 0))
    IN  uploaded(uploadSite(env, file, t, target, prov, session, keyApi, pin, du))

\* updateSite(path, siteId, domain, useExistingSpinner); it returns
\* undefined on every path.
updateSite(env, file, t, target, siteId, domain, quiet, site, prov, session, keyApi, pin, du, api) ==
    LET uploaded(up) ==
            LET resolved(tk) ==
                LET found == api = "ok" /\ site.exists /\ Subdomain(domain) = site.domain
                    id == IF domain # Undefined THEN site.id ELSE siteId
                    find == IF domain # Undefined THEN <<ReqFindSite>> ELSE <<>>
                IN
                IF HasProp(up.ret, "error")
                THEN SiteRun(up, Undefined, up.file, up.end, <<>>,
                             <<<<"Error: ", up.ret.error>>>>, "none")
                ELSE IF tk.result.threw
                THEN SiteRun(up, Undefined, tk.file, tk.end, <<>>,
                             tk.log \o <<"exception">>, "none")
                ELSE IF ~tk.result.present
                THEN SiteRun(up, Undefined, tk.file, tk.end, <<>>,
                             tk.log \o <<MsgPleaseLogin>>, "none")
                ELSE IF IsOAuth(tk.result.tokens) /\ session # "ok"
                THEN SiteRun(up, Undefined, tk.file, tk.end, <<>>,
                             tk.log \o <<MsgNoActiveSession>>, "none")
                ELSE IF domain # Undefined /\ ~found
                THEN SiteRun(up, Undefined, tk.file, tk.end, <<ReqFindSite>>,
                             tk.log \o <<"exception">>, "none")
                ELSE IF api = "down"
                THEN SiteRun(up, Undefined, tk.file, tk.end, find \o <<ReqUpdate>>,
                             tk.log \o <<"exception">>, "none")
                ELSE IF api = "ok" /\ site.exists /\ id = site.id
                THEN SiteRun(up, Undefined, tk.file, tk.end, find \o <<ReqUpdate>>,
                             tk.log \o (IF quiet THEN <<>> ELSE <<MsgSiteUpdated>>),
                             "updated")
                ELSE SiteRun(up, Undefined, tk.file, tk.end, find \o <<ReqUpdate>>,
                             tk.log \o <<MsgProblemUpdating>>, "none")
            IN  resolved(getValidTokens(env, up.file, up.end, prov, 0, 0, 0))
    IN  uploaded(uploadSite(env, file, t, target, prov, session, keyApi, pin, du))

\* A project directory with nothing in it, and the services with no site.
NoProject == [target |-> NoTarget, config |-> NoFile, custom |-> NoFile]
NoRemote == [pins |-> {}, site |-> NoSite, functions |-> {}]

----------------------------------------------------------------------------
(* Sites: delete, versions, rollback, server function *)

ReqDelete == "DELETE /sites/id"
ReqVersions == "GET /sites/domain/versions"
ReqDeployFunction == "POST /functions/deploy/id"
MsgSiteDeleted == "Site deleted"
MsgRollbackComplete == "Rollback Complete"
MsgAuthRequired == "Authentication required. Please login first."
MsgPaidPlan == "SERVER FUNCTIONS NEED A PAID PLAN"
MsgDeploymentFailed == "Deployment failed"
NoUpload == [skipped |-> TRUE]

\* What listSites and listVersions return when they return nothing.
NoResult == [ok |-> FALSE]

\* The run of an operation that uploads nothing, after the resolver call
\* tk.
OpRun(tk, ret, requests, out, effect) ==
    [ret |-> ret, file |-> tk.file, end |-> tk.end, requests |-> requests,
     out |-> tk.log \o out, pins |-> {},
     authed |-> ~tk.result.threw /\ tk.result.present, effect |-> effect,
     upload |-> NoUpload]

\* Mutant: deleteSite sending its request without a credential.
deleteSite_NoTokenCheck(env, file, t, siteId, site, prov, session, api) ==
    LET resolved(tk) ==
        IF tk.result.threw
        THEN OpRun(tk, Undefined, <<>>, <<"exception">>, "none")
        ELSE IF tk.result.present /\ IsOAuth(tk.result.tokens) /\ session # "ok"
        THEN OpRun(tk, Undefined, <<>>, <<MsgNoActiveSession>>, "none")
        ELSE IF api = "down"
        THEN OpRun(tk, Undefined, <<ReqDelete>>, <<"exception">>, "none")
        ELSE IF api = "ok" /\ site.exists /\ site.id = siteId
        THEN OpRun(tk, Undefined, <<ReqDelete>>, <<MsgSiteDeleted>>, "deleted")
        ELSE OpRun(tk, Undefined, <<ReqDelete>>, <<MsgProblemUpdating>>, "none")
    IN  resolved(getValidTokens(env, file, t, prov, 0, 0, 0))

\* deleteSite(siteId)
deleteSite(env, file, t, siteId, site, prov, session, api) ==
    LET resolved(tk) ==
        IF tk.result.threw
        THEN OpRun(tk, Undefined, <<>>, <<"exception">>, "none")
        ELSE IF ~tk.result.present
        THEN OpRun(tk, Undefined, <<>>, <<MsgPleaseLogin>>, "none")
        ELSE IF IsOAuth(tk.result.tokens) /\ session # "ok"
        THEN OpRun(tk, Undefined, <<>>, <<MsgNoActiveSession>>, "none")
        ELSE IF api = "down"
        THEN OpRun(tk, Undefined, <<ReqDelete>>, <<"exception">>, "none")
        ELSE IF api = "ok" /\ site.exists /\ site.id = siteId
        THEN OpRun(tk, Undefined, <<ReqDelete>>, <<MsgSiteDeleted>>, "deleted")
        ELSE OpRun(tk, Undefined, <<ReqDelete>>, <<MsgProblemUpdating>>, "none")
    IN  resolved(getValidTokens(env, file, t, prov, 0, 0, 0))

\* listVersions(domain)
listVersions(env, file, t, domain, site, prov, session, api) ==
    LET resolved(tk) ==
        IF tk.result.threw
        THEN OpRun(tk, NoResult, <<>>, <<"exception">>, "none")
        ELSE IF ~tk.result.present
        THEN OpRun(tk, NoResult, <<>>, <<MsgPleaseLogin>>, "none")
        ELSE IF IsOAuth(tk.result.tokens) /\ session # "ok"
        THEN OpRun(tk, NoResult, <<>>, <<MsgNoActiveSession>>, "none")
        ELSE IF api = "down"
        THEN OpRun(tk, NoResult, <<ReqVersions>>, <<"exception">>, "none")
        ELSE IF api = "ok" /\ site.exists /\ Subdomain(domain) = site.domain
        THEN OpRun(tk, [ok |-> TRUE, data |-> <<site.cid>>], <<ReqVersions>>,
                   <<<<"versions", site.cid>>>>, "none")
        ELSE OpRun(tk, NoResult, <<ReqVersions>>,
                   <<"Problem fetching versions: ">>, "none")
    IN  resolved(getValidTokens(env, file, t, prov, 0, 0, 0))

\* rollbackSite(domain, cid)
rollbackSite(env, file, t, domain, cid, site, prov, session, api) ==
    LET resolved(tk) ==
        LET found == api = "ok" /\ site.exists /\ domain = site.domain
        IN
        IF tk.result.threw
        THEN OpRun(tk, Undefined, <<>>, <<"exception">>, "none")
        ELSE IF ~tk.result.present
        THEN OpRun(tk, Undefined, <<>>, <<MsgPleaseLogin>>, "none")
        ELSE IF IsOAuth(tk.result.tokens) /\ session # "ok"
        THEN OpRun(tk, Undefined, <<>>, <<MsgNoActiveSession>>, "none")
        ELSE IF ~found
        THEN OpRun(tk, Undefined, <<ReqFindSite>>, <<"exception">>, "none")
        ELSE OpRun(tk, Undefined, <<ReqFindSite, ReqUpdate>>,
                   <<MsgRollbackComplete>>, "rolledback")
    IN  resolved(getValidTokens(env, file, t, prov, 0, 0, 0))

\* Mutant: deployToOrbiter throwing on status 401 as on any other status.
deployToOrbiter_ThrowsOn401(env, file, t, siteId, site, prov, api) ==
    LET resolved(tk) ==
        IF tk.result.threw
        THEN OpRun(tk, [threw |-> "exception"], <<>>, <<>>, "none")
        ELSE IF ~tk.result.present
        THEN OpRun(tk, [threw |-> MsgAuthRequired], <<>>, <<>>, "none")
        ELSE IF api = "down"
        THEN OpRun(tk, [threw |-> "fetch failed"], <<ReqDeployFunction>>, <<>>,
                   "none")
        ELSE IF api = "ok" /\ site.exists /\ site.id = siteId
        THEN OpRun(tk, [data |-> siteId], <<ReqDeployFunction>>, <<>>,
                   "function")
        ELSE OpRun(tk, [threw |-> MsgDeploymentFailed], <<ReqDeployFunction>>,
                   <<>>, "none")
    IN  resolved(getValidTokens(env, file, t, prov, 0, 0, 0))

\* deployToOrbiter(siteId, scriptContent, envBindings, spinner): it throws
\* when no credential is found and when the API refuses for another reason
\* than status 401, for which it returns null.
deployToOrbiter(env, file, t, siteId, site, prov, api) ==
    LET resolved(tk) ==
        IF tk.result.threw
        THEN OpRun(tk, [threw |-> "exception"], <<>>, <<>>, "none")
        ELSE IF ~tk.result.present
        THEN OpRun(tk, [threw |-> MsgAuthRequired], <<>>, <<>>, "none")
        ELSE IF api = "down"
        THEN OpRun(tk, [threw |-> "fetch failed"], <<ReqDeployFunction>>, <<>>,
                   "none")
        ELSE IF api = "ok" /\ site.exists /\ site.id = siteId
        THEN OpRun(tk, [data |-> siteId], <<ReqDeployFunction>>, <<>>,
                   "function")
        ELSE IF api = "reject"
        THEN OpRun(tk, [null |-> TRUE], <<ReqDeployFunction>>,
                   <<MsgPaidPlan>>, "none")
        ELSE OpRun(tk, [threw |-> MsgDeploymentFailed], <<ReqDeployFunction>>,
                   <<>>, "none")
    IN  resolved(getValidTokens(env, file, t, prov, 0, 0, 0))

----------------------------------------------------------------------------
(* Deployment of a site *)

ReqListSites == "GET /sites"
EvReadConfig == "read config"
EvPrompt == "prompt"
EvWriteConfig == "write orbiter.json"
EvBuild == "build"
MsgSiteDeployed == "Site deployed"
MsgNoSiteWithId == "No site found with ID"

BuildMinutes == 1          \* minutes the build command takes

\* An OrbiterConfig as JSON.stringify writes it: siteId is left out when it
\* is undefined.
MkConfig(siteId, domain, buildCommand, buildDir) ==
    IF siteId = Undefined
    THEN [domain |-> domain, buildCommand |-> buildCommand,
          buildDir |-> buildDir]
    ELSE [siteId |-> siteId, domain |-> domain,
          buildCommand |-> buildCommand, buildDir |-> buildDir]

\* The options of deploySite, Undefined for an option that is not given.
MkOptions(siteId, domain, buildCommand, buildDir, configPath, spinner) ==
    [siteId |-> siteId, domain |-> domain, buildCommand |-> buildCommand,
     buildDir |-> buildDir, configPath |-> configPath, spinner |-> spinner]

NoOptions ==
    MkOptions(Undefined, Undefined, Undefined, Undefined, Undefined, FALSE)

\* What the user answers to the prompts of createNewDeployment.
MkAnswers(action) ==
    [action |-> action, newDomain |-> SiteDomain,
     buildCommand |-> "npm run build", buildDir |-> "dist"]

\* listSites(domain, verbose, existingSpinner) entered at minute t; quiet
\* when it was handed a spinner.
listSites(env, file, t, domain, quiet, site, prov, session, api) ==
    LET resolved(tk) ==
        LET req == IF domain = Undefined THEN ReqListSites ELSE ReqFindSite
            data == IF site.exists
                       /\ (domain = Undefined \/ domain = site.domain)
                    THEN <<site>> ELSE <<>>
            run(ret, requests, out, authed) ==
                [ret |-> ret, file |-> tk.file, end |-> tk.end,
                 requests |-> requests, out |-> tk.log \o out, pins |-> {},
                 authed |-> authed]
        IN
        IF tk.result.threw
        THEN run(NoResult, <<>>, <<"exception">>, FALSE)
        ELSE IF ~tk.result.present
        THEN run(NoResult, <<>>,
                 IF quiet THEN <<>> ELSE <<MsgPleaseLogin>>, FALSE)
        ELSE IF IsOAuth(tk.result.tokens) /\ session # "ok"
        THEN run(NoResult, <<>>, <<MsgNoActiveSession>>, TRUE)
        ELSE IF api = "down"
        THEN run(NoResult, <<req>>, <<"exception">>, TRUE)
        ELSE IF api = "reject"
        THEN run(NoResult, <<req>>, <<"Problem fetching sites: ">>, TRUE)
        ELSE run([ok |-> TRUE, data |-> data], <<req>>, <<>>, TRUE)
    IN  resolved(getValidTokens(env, file, t, prov, 0, 0, 0))

\* createNewDeployment(options): the configuration assembled from the
\* options, the sites listed and the answers, written to orbiter.json in
\* the working directory; threw when it ends with an exception.
createNewDeployment(opts, env, file, t, site, sc, answers) ==
    LET listing(ls) ==
        LET listed == opts.domain = Undefined
            sites == IF ls.ret.ok THEN ls.ret.data ELSE <<>>
            known == opts.siteId # Undefined /\ Len(sites) > 0
                     /\ sites[1].id = opts.siteId
            link == opts.siteId = Undefined /\ listed /\ Len(sites) > 0
                    /\ answers.action = "existing"
            siteId == IF link THEN sites[1].id ELSE opts.siteId
            domain == IF opts.domain # Undefined THEN opts.domain
                      ELSE IF known \/ link THEN sites[1].domain
                      ELSE answers.newDomain
            asked == (IF listed /\ opts.siteId = Undefined
                      THEN <<EvPrompt, EvPrompt>> ELSE <<>>)
                     \o (IF opts.buildCommand = Undefined
                         THEN <<EvPrompt>> ELSE <<>>)
                     \o (IF opts.buildDir = Undefined THEN <<EvPrompt>> ELSE <<>>)
            config == MkConfig(siteId, domain,
                               IF opts.buildCommand = Undefined
                               THEN answers.buildCommand ELSE opts.buildCommand,
                               IF opts.buildDir = Undefined
                               THEN answers.buildDir ELSE opts.buildDir)
            f == IF listed THEN ls.file ELSE file
            e == IF listed THEN ls.end ELSE t
            evs == IF listed THEN ls.requests ELSE <<>>
            out == IF listed THEN ls.out ELSE <<>>
        IN
        IF listed /\ opts.siteId # Undefined /\ ~known
        THEN [threw |-> TRUE, config |-> Undefined, written |-> FALSE,
              file |-> f, end |-> e, events |-> evs,
              out |-> out \o <<MsgNoSiteWithId>>]
        ELSE [threw |-> FALSE, config |-> config, written |-> TRUE,
              file |-> f, end |-> e,
              events |-> evs \o asked \o <<EvWriteConfig>>, out |-> out]
    IN  listing(listSites(env, file, t, Undefined, FALSE, site, sc.prov,
                        sc.session, sc.api))

\* Mutant: an existing file is used whatever options are given.
DeployConfig_FileFirst(opts, env, file, t, proj, site, sc, answers) ==
    LET fresh(cnd) ==
        LET cfgFile == IF opts.configPath = Undefined THEN proj.config
                       ELSE proj.custom
            anyOption == \/ opts.domain # Undefined
                         \/ opts.siteId # Undefined
                         \/ opts.buildCommand # Undefined
                         \/ opts.buildDir # Undefined
            parsed == JSONParse(cfgFile)
        IN
        IF cfgFile.kind # "nofile"
        THEN [ok |-> parsed.ok,
              config |-> IF parsed.ok THEN parsed.value ELSE Undefined,
              fromFile |-> TRUE, file |-> file, end |-> t,
              events |-> <<EvReadConfig>>, out |-> <<>>, cwd |-> proj.config]
        ELSE [ok |-> ~cnd.threw, config |-> cnd.config, fromFile |-> FALSE,
              file |-> cnd.file, end |-> cnd.end, events |-> cnd.events,
              out |-> cnd.out,
              cwd |-> IF cnd.written THEN JSONStringify(cnd.config)
                      ELSE proj.config]
    IN  fresh(createNewDeployment(opts, env, file, t, site, sc, answers))

\* The configuration deploySite works with, or its failure to get one:
\* the file at configPath parsed as it is when it exists and none of
\* domain, siteId, buildCommand, buildDir is given, createNewDeployment
\* otherwise.  cwd is orbiter.json in the working directory afterwards.
DeployConfig(opts, env, file, t, proj, site, sc, answers) ==
    LET fresh(cnd) ==
        LET cfgFile == IF opts.configPath = Undefined THEN proj.config
                       ELSE proj.custom
            anyOption == \/ opts.domain # Undefined
                         \/ opts.siteId # Undefined
                         \/ opts.buildCommand # Undefined
                         \/ opts.buildDir # Undefined
            parsed == JSONParse(cfgFile)
        IN
        IF cfgFile.kind # "nofile" /\ ~anyOption
        THEN [ok |-> parsed.ok,
              config |-> IF parsed.ok THEN parsed.value ELSE Undefined,
              fromFile |-> TRUE, file |-> file, end |-> t,
              events |-> <<EvReadConfig>>, out |-> <<>>, cwd |-> proj.config]
        ELSE [ok |-> ~cnd.threw, config |-> cnd.config, fromFile |-> FALSE,
              file |-> cnd.file, end |-> cnd.end, events |-> cnd.events,
              out |-> cnd.out,
              cwd |-> IF cnd.written THEN JSONStringify(cnd.config)
                      ELSE proj.config]
    IN  fresh(createNewDeployment(opts, env, file, t, site, sc, answers))

\* deploySite(options) for a site (options.server not set), entered at
\* minute t in the project proj with the site at the hosted API; build
\* tells whether the build command succeeds.
deploySite(opts, env, file, t, proj, site, sc, answers, build) ==
    LET configured(c) ==
        LET quiet == opts.spinner
            run(ret, f, e, events, out, cwd, pins, effect, cid) ==
                [ret |-> ret, file |-> f, end |-> e, events |-> events,
                 out |-> out, cwd |-> cwd, pins |-> pins, effect |-> effect,
                 cid |-> cid, fromFile |-> c.fromFile]
            failed(f, e, events, out, cwd, pins) ==
                run(FALSE, f, e, events,
                    out \o (IF quiet THEN <<>> ELSE <<MsgDeploymentFailed>>),
                    cwd, pins, "none", Undefined)
            target == IF HasProp(c.config, "buildDir") THEN proj.target
                      ELSE NoTarget
            built == c.end + BuildMinutes
            linked == JSONStringify([siteId |-> SiteId] @@ c.config)
            updated(up) ==
                run(TRUE, up.file, up.end,
                    c.events \o <<EvBuild>> \o up.requests,
                    c.out \o up.out
                          \o (IF quiet THEN <<>> ELSE <<MsgSiteUpdated>>),
                    c.cwd, up.pins, up.effect, CidOf(target))
            listed(cr, ls) ==
                LET gotId == ls.ret.ok /\ Len(ls.ret.data) > 0 IN
                run(TRUE, ls.file, ls.end,
                    c.events \o <<EvBuild>> \o cr.requests \o ls.requests
                             \o (IF gotId THEN <<EvWriteConfig>> ELSE <<>>),
                    c.out \o cr.out \o ls.out
                          \o (IF quiet THEN <<>> ELSE <<MsgSiteDeployed>>),
                    IF gotId THEN linked ELSE c.cwd, cr.pins, "created",
                    CidOf(target))
            created(cr) ==
                IF ~cr.ret
                THEN run(FALSE, cr.file, cr.end,
                         c.events \o <<EvBuild>> \o cr.requests,
                         c.out \o cr.out, c.cwd, cr.pins, "none", Undefined)
                ELSE listed(cr, listSites(env, cr.file, cr.end,
                                          c.config.domain, TRUE,
                                          MkSite(CidOf(target)), sc.prov,
                                          sc.session, sc.api))
        IN
        IF ~c.ok
        THEN failed(c.file, c.end, c.events, c.out, c.cwd, {})
        ELSE IF ~HasProp(c.config, "buildCommand") \/ build # "ok"
        THEN failed(c.file, built, c.events \o <<EvBuild>>, c.out, c.cwd, {})
        ELSE IF HasProp(c.config, "siteId")
        THEN updated(updateSite(env, c.file, built, target, c.config.siteId,
                                Undefined, TRUE, site, sc.prov, sc.session,
                                sc.keyApi, sc.pin, sc.du, sc.api))
        ELSE created(createSite(env, c.file, built, target, c.config.domain,
                                TRUE, site, sc.prov, sc.session, sc.keyApi,
                                sc.pin, sc.du, sc.api))
    IN  configured(DeployConfig(opts, env, file, t, proj, site, sc, answers))

----------------------------------------------------------------------------
(* Deployment of a server function *)

MsgServerDeployed == "Server deployed"
MsgServerFailed == "Server deployment failed"
MsgNoSites == "No sites found"
MsgCouldNotParse == "Warning: Could not parse orbiter.json"

\* generateDefaultBuildCommand(entryFile, buildDir) where bun is not the
\* runtime.
generateDefaultBuildCommand(entryFile, buildDir) ==
    CASE entryFile = "src/index.ts" /\ buildDir = "dist" ->
            "esbuild src/index.ts --bundle --outfile=dist/index.js"
      [] entryFile = "src/index.ts" /\ buildDir = "out" ->
            "esbuild src/index.ts --bundle --outfile=out/index.js"
      [] entryFile = "server.ts" /\ buildDir = "dist" ->
            "esbuild server.ts --bundle --outfile=dist/index.js"
      [] entryFile = "server.ts" /\ buildDir = "out" ->
            "esbuild server.ts --bundle --outfile=out/index.js"

\* A ServerConfig.
MkServerConfig(siteId, entryPath, buildCommand, buildDir) ==
    [siteId |-> siteId, entryPath |-> entryPath,
     buildCommand |-> buildCommand, buildDir |-> buildDir,
     runtime |-> "cloudflare-workers"]

\* The options of deployServerCommand, Undefined for one that is not given.
MkServerOptions(siteId, entryFile, buildDir, buildCommand, configPath) ==
    [siteId |-> siteId, entryFile |-> entryFile, buildDir |-> buildDir,
     buildCommand |-> buildCommand, configPath |-> configPath]

NoServerOptions ==
    MkServerOptions(Undefined, Undefined, Undefined, Undefined, Undefined)

hasAnyOptions(o) ==
    \/ o.siteId # Undefined
    \/ o.entryFile # Undefined
    \/ o.buildDir # Undefined
    \/ o.buildCommand # Undefined

hasAllRequiredOptions(o) ==
    o.siteId # Undefined /\ o.entryFile # Undefined /\ o.buildDir # Undefined

\* loadServerConfig(configPath) on the file f: null for a file that is
\* missing, does not parse or lacks siteId or entryPath; the defaults of
\* buildDir, buildCommand and runtime are filled in otherwise.
loadServerConfig(f) ==
    LET parsed == JSONParse(f)
        c == parsed.value
        buildDir == IF HasProp(c, "buildDir") THEN c.buildDir ELSE "dist"
        buildCommand ==
            IF HasProp(c, "buildCommand") THEN c.buildCommand
            ELSE generateDefaultBuildCommand(c.entryPath, buildDir)
    IN  IF f.kind = "nofile" THEN [ok |-> FALSE, out |-> <<>>]
        ELSE IF ~parsed.ok THEN [ok |-> FALSE, out |-> <<MsgCouldNotParse>>]
        ELSE IF ~HasProp(c, "siteId") \/ ~HasProp(c, "entryPath")
        THEN [ok |-> FALSE, out |-> <<>>]
        ELSE [ok |-> TRUE, out |-> <<>>,
              config |-> MkServerConfig(c.siteId, c.entryPath, buildCommand,
                                        buildDir)]

\* createInteractiveServerConfig(options): the sites are listed and the
\* user is asked for what the options o leave open; the answers are the
\* first site listed and the defaults offered.
createInteractiveServerConfig(o, env, file, t, site, sc) ==
    LET listing(ls) ==
        LET sites == IF ls.ret.ok THEN ls.ret.data ELSE <<>>
            siteId == IF o.siteId = Undefined THEN sites[1].id ELSE o.siteId
            entryPath == IF o.entryFile = Undefined THEN "src/index.ts"
                         ELSE o.entryFile
            buildDir == IF o.buildDir = Undefined THEN "dist" ELSE o.buildDir
            buildCommand ==
                IF o.buildCommand = Undefined
                THEN generateDefaultBuildCommand(entryPath, buildDir)
                ELSE o.buildCommand
            asked == (IF o.siteId = Undefined THEN <<EvPrompt>> ELSE <<>>)
                     \o (IF o.entryFile = Undefined THEN <<EvPrompt>>
                         ELSE <<>>)
                     \o (IF o.buildDir = Undefined THEN <<EvPrompt>>
                         ELSE <<>>)
                     \o (IF o.buildCommand = Undefined THEN <<EvPrompt>>
                         ELSE <<>>)
        IN
        IF Len(sites) = 0
        THEN [threw |-> TRUE, file |-> ls.file, end |-> ls.end,
              events |-> ls.requests, out |-> ls.out \o <<MsgNoSites>>]
        ELSE [threw |-> FALSE, file |-> ls.file, end |-> ls.end,
              events |-> ls.requests \o asked, out |-> ls.out,
              config |-> MkServerConfig(siteId, entryPath, buildCommand,
                                        buildDir)]
    IN  listing(listSites(env, file, t, Undefined, FALSE, site, sc.prov,
                          sc.session, sc.api))

\* The run of a server deployment: how it ended ("returned" or "threw"),
\* the token file and the clock at its end, what it did in order, the
\* lines shown, orbiter.json in the working directory afterwards, the
\* effect at the hosted API, where the configuration came from and the
\* site it names.
ServerRun(ret, file, t, events, out, cwd, effect, source, siteId) ==
    [ret |-> ret, file |-> file, end |-> t, events |-> events, out |-> out,
     cwd |-> cwd, effect |-> effect, source |-> source, siteId |-> siteId]

\* Mutant: the configuration is saved after every successful deployment.
deployServerCommand_AlwaysSaves(o, env, file, t, proj, site, sc, build) ==
    LET cfgFile == IF o.configPath = Undefined THEN proj.config
                   ELSE proj.custom
        loaded == loadServerConfig(cfgFile)
        fromFile == cfgFile.kind # "nofile" /\ ~hasAnyOptions(o)
        source == IF fromFile
                  THEN (IF loaded.ok THEN "file" ELSE "interactive")
                  ELSE IF hasAllRequiredOptions(o) THEN "options"
                  ELSE "interactive"
        readEv == IF fromFile THEN <<EvReadConfig>> ELSE <<>>
        failed(f, e, events, out, id) ==
            ServerRun("threw", f, e, events, out \o <<MsgServerFailed>>,
                      proj.config, "none", source, id)
        deployed(c, f, e, events, out) ==
            LET answered(d) ==
                IF HasProp(d.ret, "threw")
                THEN failed(d.file, d.end, events \o <<EvBuild>> \o d.requests,
                            out \o d.out, c.siteId)
                ELSE IF HasProp(d.ret, "null")
                THEN ServerRun("returned", d.file, d.end,
                               events \o <<EvBuild>> \o d.requests,
                               out \o d.out, proj.config, "none", source,
                               c.siteId)
                ELSE ServerRun("returned", d.file, d.end,
                               events \o <<EvBuild>> \o d.requests
                                      \o <<EvWriteConfig>>,
                               out \o d.out \o <<MsgServerDeployed>>,
                               JSONStringify(c),
                               "function", source, c.siteId)
            IN  IF build # "ok"
                THEN failed(f, e + BuildMinutes, events \o <<EvBuild>>, out,
                            c.siteId)
                ELSE answered(deployToOrbiter(env, f, e + BuildMinutes,
                                              c.siteId, site, sc.prov,
                                              sc.api))
        setup(ic) ==
            IF ic.threw
            THEN failed(ic.file, ic.end, readEv \o ic.events,
                        loaded.out \o ic.out, Undefined)
            ELSE deployed(ic.config, ic.file, ic.end, readEv \o ic.events,
                          loaded.out \o ic.out)
    IN  IF source = "file"
        THEN deployed(loaded.config, file, t, readEv, <<>>)
        ELSE IF source = "options"
        THEN deployed(MkServerConfig(
                          o.siteId, o.entryFile,
                          IF o.buildCommand = Undefined
                          THEN generateDefaultBuildCommand(o.entryFile,
                                                           o.buildDir)
                          ELSE o.buildCommand,
                          o.buildDir),
                      file, t, <<>>, <<>>)
        ELSE setup(createInteractiveServerConfig(
                       IF fromFile THEN NoServerOptions ELSE o, env, file, t,
                       site, sc))

\* deployServerCommand(options) entered at minute t in the project proj;
\* build tells whether buildServerCode and readBuiltScript succeed.  The
\* .env file of options.env only adds bindings to the request.
deployServerCommand(o, env, file, t, proj, site, sc, build) ==
    LET cfgFile == IF o.configPath = Undefined THEN proj.config
                   ELSE proj.custom
        loaded == loadServerConfig(cfgFile)
        fromFile == cfgFile.kind # "nofile" /\ ~hasAnyOptions(o)
        source == IF fromFile
                  THEN (IF loaded.ok THEN "file" ELSE "interactive")
                  ELSE IF hasAllRequiredOptions(o) THEN "options"
                  ELSE "interactive"
        readEv == IF fromFile THEN <<EvReadConfig>> ELSE <<>>
        failed(f, e, events, out, id) ==
            ServerRun("threw", f, e, events, out \o <<MsgServerFailed>>,
                      proj.config, "none", source, id)
        deployed(c, f, e, events, out) ==
            LET answered(d) ==
                IF HasProp(d.ret, "threw")
                THEN failed(d.file, d.end, events \o <<EvBuild>> \o d.requests,
                            out \o d.out, c.siteId)
                ELSE IF HasProp(d.ret, "null")
                THEN ServerRun("returned", d.file, d.end,
                               events \o <<EvBuild>> \o d.requests,
                               out \o d.out, proj.config, "none", source,
                               c.siteId)
                ELSE ServerRun("returned", d.file, d.end,
                               events \o <<EvBuild>> \o d.requests
                                      \o (IF proj.config.kind = "nofile"
                                          THEN <<EvWriteConfig>> ELSE <<>>),
                               out \o d.out \o <<MsgServerDeployed>>,
                               IF proj.config.kind = "nofile"
                               THEN JSONStringify(c) ELSE proj.config,
                               "function", source, c.siteId)
            IN  IF build # "ok"
                THEN failed(f, e + BuildMinutes, events \o <<EvBuild>>, out,
                            c.siteId)
                ELSE answered(deployToOrbiter(env, f, e + BuildMinutes,
                                              c.siteId, site, sc.prov,
                                              sc.api))
        setup(ic) ==
            IF ic.threw
            THEN failed(ic.file, ic.end, readEv \o ic.events,
                        loaded.out \o ic.out, Undefined)
            ELSE deployed(ic.config, ic.file, ic.end, readEv \o ic.events,
                          loaded.out \o ic.out)
    IN  IF source = "file"
        THEN deployed(loaded.config, file, t, readEv, <<>>)
        ELSE IF source = "options"
        THEN deployed(MkServerConfig(
                          o.siteId, o.entryFile,
                          IF o.buildCommand = Undefined
                          THEN generateDefaultBuildCommand(o.entryFile,
                                                           o.buildDir)
                          ELSE o.buildCommand,
                          o.buildDir),
                      file, t, <<>>, <<>>)
        ELSE setup(createInteractiveServerConfig(
                       IF fromFile THEN NoServerOptions ELSE o, env, file, t,
                       site, sc))

\* createServerConfig(): the sites are listed, the user chooses the first
\* one and takes the defaults offered, and the configuration is written
\* to orbiter.json in the working directory.
createServerConfig(env, file, t, site, sc) ==
    LET listing(ls) ==
        LET sites == IF ls.ret.ok THEN ls.ret.data ELSE <<>> IN
        IF Len(sites) = 0
        THEN [threw |-> TRUE, file |-> ls.file, end |-> ls.end,
              events |-> ls.requests, out |-> ls.out \o <<MsgNoSites>>]
        ELSE [threw |-> FALSE, file |-> ls.file, end |-> ls.end,
              events |-> ls.requests
                         \o <<EvPrompt, EvPrompt, EvPrompt, EvWriteConfig>>,
              out |-> ls.out,
              config |-> MkServerConfig(
                             sites[1].id, "src/index.ts",
                             generateDefaultBuildCommand("src/index.ts",
                                                         "dist"),
                             "dist")]
    IN  listing(listSites(env, file, t, Undefined, FALSE, site, sc.prov,
                          sc.session, sc.api))

\* deployServer(configPath, useEnv), which deploySite calls when
\* options.server is set: deploySite returns true when it returns and
\* false when it throws.
deployServer(configPath, env, file, t, proj, site, sc, build) ==
    LET cfgFile == IF configPath = Undefined THEN proj.config
                   ELSE proj.custom
        loaded == loadServerConfig(cfgFile)
        source == IF loaded.ok THEN "file" ELSE "interactive"
        readEv == IF cfgFile.kind # "nofile" THEN <<EvReadConfig>> ELSE <<>>
        failed(f, e, events, out, cwd, id) ==
            ServerRun("threw", f, e, events, out \o <<MsgServerFailed>>,
                      cwd, "none", source, id)
        deployed(c, f, e, events, out, cwd) ==
            LET answered(d) ==
                IF HasProp(d.ret, "threw")
                THEN failed(d.file, d.end, events \o <<EvBuild>> \o d.requests,
                            out \o d.out, cwd, c.siteId)
                ELSE IF HasProp(d.ret, "null")
                THEN ServerRun("returned", d.file, d.end,
                               events \o <<EvBuild>> \o d.requests,
                               out \o d.out, cwd, "none", source, c.siteId)
                ELSE ServerRun("returned", d.file, d.end,
                               events \o <<EvBuild>> \o d.requests,
                               out \o d.out \o <<MsgServerDeployed>>, cwd,
                               "function", source, c.siteId)
            IN  IF build # "ok"
                THEN failed(f, e + BuildMinutes, events \o <<EvBuild>>, out,
                            cwd, c.siteId)
                ELSE answered(deployToOrbiter(env, f, e + BuildMinutes,
                                              c.siteId, site, sc.prov,
                                              sc.api))
        setup(ic) ==
            IF ic.threw
            THEN failed(ic.file, ic.end, readEv \o ic.events,
                        loaded.out \o ic.out, proj.config, Undefined)
            ELSE deployed(ic.config, ic.file, ic.end, readEv \o ic.events,
                          loaded.out \o ic.out, JSONStringify(ic.config))
    IN  IF loaded.ok
        THEN deployed(loaded.config, file, t, readEv, <<>>, proj.config)
        ELSE setup(createServerConfig(env, file, t, site, sc))

----------------------------------------------------------------------------
(* Scaffolding of a new project (utils/template.ts, createTemplateApp) *)

MsgProjectCreated == "Project created and dependencies installed"
MsgClientDeployed == "Client deployed to"
MsgServerAvailable == "Server available at:"
MsgFailedToCreate == "Failed to create app"
MsgServerDeployedOk == "Server deployed successfully"
MsgAutoServerFailed == "Automatic server deployment failed"
MsgNoSiteInfo == "Could not retrieve site information for server deployment"

EvInstall == "install"
EvWriteServerConfig == "write server/orbiter.json"
EvDeployServer == "orbiter deploy --server"

\* The build command that createTemplateApp derives from the package
\* manager.
TemplateBuildCommand(packageManager) ==
    CASE packageManager = "yarn" -> "yarn build"
      [] packageManager = "pnpm" -> "pnpm run build"
      [] packageManager = "bun" -> "bun run build"
      [] OTHER -> "npm run build"

\* createTemplateApp entered at minute t: the template has been chosen
\* from the list of listAvailableTemplates, entry is its directory in the
\* cache, proj the directory the client is deployed from, site the site
\* at the hosted API.  sr tells how the surroundings answer: the listing
\* of the templates, git clone and cp, the contents API, the installation
\* of the dependencies, the scenario of the deployment, the build and the
\* command "orbiter deploy --server".  deployRet is what deploySite
\* returned, "none" when it was not called; out are the lines that
\* createTemplateApp shows itself, inner those of the calls it makes.
createTemplateApp(template, packageManager, sr, env, file, t, entry, proj, site) ==
    LET isBhvrTemplate == template = "bhvr"
        buildCommand ==
            TemplateBuildCommand(IF isBhvrTemplate THEN "bun"
                                 ELSE packageManager)
        run(deployRet, ft, f, e, events, out, inner, cwd, pins, effect, cid, fns) ==
            [deployRet |-> deployRet, entry |-> ft.entry,
             tempLeft |-> ft.tempLeft, fetched |-> ft.fetched, file |-> f,
             end |-> e, events |-> events, out |-> out, inner |-> inner,
             cwd |-> cwd,
             pins |-> pins, effect |-> effect, cid |-> cid,
             functions |-> fns]
        notFetched ==
            [entry |-> entry, tempLeft |-> 0, fetched |-> FALSE]
        stopped(ft, events) ==
            run("none", ft, file, ft.end, events, <<MsgFailedToCreate>>,
                <<>>, proj.config, {}, "none", Undefined, {})
        served(ft, ds, ls) ==
            LET gotId == ls.ret.ok /\ Len(ls.ret.data) > 0
                deployedFn == gotId /\ sr.server = "ok"
            IN  run(IF ds.ret THEN "true" ELSE "false", ft, ls.file, ls.end,
                    <<EvInstall>> \o ds.events \o ls.requests
                        \o (IF gotId
                            THEN <<EvWriteServerConfig, EvDeployServer>>
                            ELSE <<>>),
                    <<MsgProjectCreated, MsgClientDeployed,
                      IF deployedFn THEN MsgServerDeployedOk
                      ELSE IF gotId THEN MsgAutoServerFailed
                      ELSE MsgNoSiteInfo,
                      MsgServerAvailable>>,
                    ds.out \o ls.out, ds.cwd, ds.pins, ds.effect, ds.cid,
                    IF deployedFn THEN {ls.ret.data[1].id} ELSE {})
        client(ft, ds) ==
            IF isBhvrTemplate
            THEN served(ft, ds,
                        listSites(env, ds.file, ds.end, SiteDomain, TRUE,
                                  IF ds.effect \in {"created", "updated"}
                                  THEN MkSite(ds.cid) ELSE site,
                                  sr.sc.prov, sr.sc.session, sr.sc.api))
            ELSE run(IF ds.ret THEN "true" ELSE "false", ft, ds.file, ds.end,
                     <<EvInstall>> \o ds.events,
                     <<MsgProjectCreated, MsgClientDeployed,
                       MsgServerAvailable>>,
                     ds.out, ds.cwd, ds.pins, ds.effect, ds.cid, {})
        copied(ft) ==
            IF ~ft.returned
            THEN stopped(ft, <<>>)
            ELSE IF sr.install # "ok"
            THEN stopped(ft, <<EvInstall>>)
            ELSE client(ft,
                        deploySite(MkOptions(Undefined, SiteDomain,
                                             buildCommand, "dist", Undefined,
                                             TRUE),
                                   env, file, ft.end, proj, site, sr.sc,
                                   MkAnswers("new"), sr.build))
    IN  IF sr.listing # "ok"
        THEN run("none", notFetched, file, t, <<>>, <<MsgFailedToCreate>>,
                 <<>>, proj.config, {}, "none", Undefined, {})
        ELSE copied(fetchTemplate(template, entry, t, sr.clone, sr.cp,
                                  sr.apiUp, TRUE, 0))

------------------------------------------------------------
(* Initial state *)

InitCreated ==
    {ToISOString(InitClock - ExpiryMinutes - 1),   \* older than 55 minutes
     ToISOString(InitClock - ExpiryMinutes),       \* exactly 55 minutes old
     ToISOString(InitClock - ExpiryMinutes + 1),   \* 54 minutes old
     ToISOString(InitClock),                       \* just written
     ToISOString(InitClock + 1),                   \* clock was set back
     InvalidDateString}

InitFiles ==
    {NoFile, Garbage}
    \cup {JSONStringify(MkTokenData("key1", Undefined, c, "apikey")) :
            c \in InitCreated}
    \cup {JSONStringify(MkTokenData("at1", r, c, "oauth")) :
            r \in {"rt1", Undefined}, c \in InitCreated}

\* No login command is running.  While one runs, clock counts the
\* milliseconds since it started, timeoutAt and successAt are the
\* deadlines of the 60 second timer and of the timer of the first
\* successful callback.
LoginIdle ==
    [pc |-> "idle", listening |-> FALSE, clock |-> 0,
     timeoutAt |-> NoTimer, successAt |-> NoTimer]

\* No timer that is set is due at millisecond t of the login run.
NoTimerDue(l, t) ==
    /\ l.timeoutAt # NoTimer => t < l.timeoutAt
    /\ l.successAt # NoTimer => t < l.successAt

NoOp == [op |-> "none"]

Init ==
    /\ now = InitClock
    /\ envApiKey \in EnvKeys
    /\ tokenFile \in InitFiles
    /\ login = LoginIdle
    /\ last = NoOp
    /\ cache = [n \in TemplateNames |-> NoDir]
    /\ tempDirs = 0
    /\ project = NoProject
    /\ remote = NoRemote

----------------------------------------------------------------------------
(* Actions *)

\* Time passes between two commands.
Tick ==
    /\ login.pc = "idle"
    /\ now + 1 <= MaxClock
    /\ now' = now + 1
    /\ last' = [op |-> "tick"]
    /\ UNCHANGED <<envApiKey, tokenFile, login>>
    /\ UNCHANGED nonAuthVars

\* A command resolves its credential.
GetValidTokens ==
    /\ login.pc = "idle"
    /\ \E prov \in RefreshOutcomes, d0 \in Elapsed, d1 \in Elapsed,
          d2 \in Elapsed :
          LET r == getValidTokens(envApiKey, tokenFile, now, prov, d0, d1, d2)
          IN  /\ r.end <= MaxClock
              /\ now' = r.end
              /\ tokenFile' = r.file
              /\ last' = [op |-> "getValidTokens", start |-> now,
                          prov |-> IF r.refreshCalls > 0 THEN prov
                                   ELSE NotAsked,
                          result |-> r.result,
                          refreshCalls |-> r.refreshCalls,
                          reads |-> r.reads, writes |-> r.writes,
                          log |-> r.log]
    /\ UNCHANGED <<envApiKey, login>>
    /\ UNCHANGED nonAuthVars

\* authenticateWithApiKey without the return after "Invalid API key".
authenticateWithApiKey_NoReturnOnInvalid(file, t, providedKey, typed, resp, d) ==
    LET prompted == providedKey = Undefined
        apiKey == IF prompted THEN typed ELSE providedKey
    IN  IF prompted /\ typed = "throws"
        THEN [file |-> file, writes |-> 0, requests |-> 0,
              message |-> "Error storing API key", end |-> t]
        ELSE IF resp = "throws"
        THEN [file |-> file, writes |-> 0, requests |-> 1,
              message |-> "Error storing API key", end |-> t + d]
        ELSE [file |-> JSONStringify(MkTokenData(apiKey, Undefined,
                                                 ToISOString(t + d), "apikey")),
              writes |-> 1, requests |-> 1,
              message |-> "API key stored successfully", end |-> t + d]

\* The api-key command.  providedKey is the --key option (Undefined when
\* not given), typed what the prompt returns ("throws" when the prompt
\* rejects), resp the answer of GET /sites, d the minutes the request takes.
authenticateWithApiKey(file, t, providedKey, typed, resp, d) ==
    LET prompted == providedKey = Undefined
        apiKey == IF prompted THEN typed ELSE providedKey
    IN  IF prompted /\ typed = "throws"
        THEN [file |-> file, writes |-> 0, requests |-> 0,
              message |-> "Error storing API key", end |-> t]
        ELSE IF resp = "throws"
        THEN [file |-> file, writes |-> 0, requests |-> 1,
              message |-> "Error storing API key", end |-> t + d]
        ELSE IF resp # "ok"
        THEN [file |-> file, writes |-> 0, requests |-> 1,
              message |-> "Invalid API key", end |-> t + d]
        ELSE [file |-> JSONStringify(MkTokenData(apiKey, Undefined,
                                                 ToISOString(t + d), "apikey")),
              writes |-> 1, requests |-> 1,
              message |-> "API key stored successfully", end |-> t + d]

AuthenticateWithApiKey ==
    /\ login.pc = "idle"
    /\ \E providedKey \in ApiKeys \cup {Undefined},
          typed \in {"key2", "throws"},
          resp \in {"ok", "notok", "throws"}, d \in Elapsed :
          LET r == authenticateWithApiKey(tokenFile, now, providedKey, typed,
                                          resp, d)
          IN  /\ r.end <= MaxClock
              /\ now' = r.end
              /\ tokenFile' = r.file
              /\ last' = [op |-> "authenticateWithApiKey", start |-> now,
                          apiKey |-> IF providedKey = Undefined THEN typed
                                     ELSE providedKey,
                          resp |-> IF r.requests > 0 THEN resp ELSE "notasked",
                          requests |-> r.requests, writes |-> r.writes,
                          message |-> r.message]
    /\ UNCHANGED <<envApiKey, login>>
    /\ UNCHANGED nonAuthVars

\* login(provider): the express app listens on port 54321 with the
\* /callback route registered; the command then awaits signInWithOAuth and
\* open(url).
LoginStart ==
    /\ login.pc = "idle"
    /\ login' = [LoginIdle EXCEPT !.pc = "opening", !.listening = TRUE]
    /\ last' = [op |-> "login"]
    /\ UNCHANGED <<now, envApiKey, tokenFile>>
    /\ UNCHANGED nonAuthVars

\* signInWithOAuth and open(url) return after w milliseconds: the 60
\* second timer is set and login() returns to its caller; or one of them
\* throws: the catch block calls process.exit(1).
LoginOpen ==
    /\ login.pc = "opening"
    /\ \E ok \in BOOLEAN, w \in WaitMs :
          /\ login.clock + w <= MaxLoginMs
          /\ NoTimerDue(login, login.clock + w)
          /\ IF ok
             THEN /\ login' = [login EXCEPT
                                 !.pc = "waiting",
                                 !.clock = login.clock + w,
                                 !.timeoutAt = login.clock + w + TimeoutMs]
                  /\ last' = [op |-> "open"]
             ELSE /\ login' = LoginIdle
                  /\ last' = [op |-> "exit", code |-> 1, closed |-> FALSE,
                              cause |-> "error",
                              stored |-> login.successAt # NoTimer,
                              returned |-> FALSE]
    /\ UNCHANGED <<now, envApiKey, tokenFile>>
    /\ UNCHANGED nonAuthVars

\* The /callback handler storing the access token only.
callback_DropsRefreshToken(file, t, accessToken, refreshTok, session, d) ==
    IF accessToken = Undefined
    THEN [file |-> file, status |-> 400, writes |-> 0, asked |-> FALSE,
          armed |-> FALSE, end |-> t]
    ELSE IF session = "throws"
    THEN [file |-> file, status |-> 500, writes |-> 0, asked |-> TRUE,
          armed |-> FALSE, end |-> t + d]
    ELSE IF session = "error"
    THEN [file |-> file, status |-> 400, writes |-> 0, asked |-> TRUE,
          armed |-> FALSE, end |-> t + d]
    ELSE [file |-> storeTokens(accessToken, Undefined, "oauth", t + d),
          status |-> 200, writes |-> 1, asked |-> TRUE, armed |-> TRUE,
          end |-> t + d]

\* The /callback handler storing the tokens before the provider is asked.
callback_StoresBeforeSession(file, t, accessToken, refreshTok, session, d) ==
    IF accessToken = Undefined
    THEN [file |-> file, status |-> 400, writes |-> 0, asked |-> FALSE,
          armed |-> FALSE, end |-> t]
    ELSE IF session = "throws"
    THEN [file |-> storeTokens(accessToken, refreshTok, "oauth", t),
          status |-> 500, writes |-> 1, asked |-> TRUE,
          armed |-> FALSE, end |-> t + d]
    ELSE IF session = "error"
    THEN [file |-> storeTokens(accessToken, refreshTok, "oauth", t),
          status |-> 400, writes |-> 1, asked |-> TRUE,
          armed |-> FALSE, end |-> t + d]
    ELSE [file |-> storeTokens(accessToken, refreshTok, "oauth", t),
          status |-> 200, writes |-> 1, asked |-> TRUE, armed |-> TRUE,
          end |-> t + d]

\* The /callback handler setting the exit timer although the provider
\* rejected the tokens.
callback_ExitsOnRejection(file, t, accessToken, refreshTok, session, d) ==
    IF accessToken = Undefined
    THEN [file |-> file, status |-> 400, writes |-> 0, asked |-> FALSE,
          armed |-> FALSE, end |-> t]
    ELSE IF session = "throws"
    THEN [file |-> file, status |-> 500, writes |-> 0, asked |-> TRUE,
          armed |-> FALSE, end |-> t + d]
    ELSE IF session = "error"
    THEN [file |-> file, status |-> 400, writes |-> 0, asked |-> TRUE,
          armed |-> TRUE, end |-> t + d]
    ELSE [file |-> storeTokens(accessToken, refreshTok, "oauth", t + d),
          status |-> 200, writes |-> 1, asked |-> TRUE, armed |-> TRUE,
          end |-> t + d]

\* The handler of GET /callback.  accessToken and refreshTok are the query
\* parameters (Undefined when missing), session the answer of
\* supabase.auth.setSession, d the minutes that call takes.
callback(file, t, accessToken, refreshTok, session, d) ==
    IF accessToken = Undefined
    THEN [file |-> file, status |-> 400, writes |-> 0, asked |-> FALSE,
          armed |-> FALSE, end |-> t]
    ELSE IF session = "throws"
    THEN [file |-> file, status |-> 500, writes |-> 0, asked |-> TRUE,
          armed |-> FALSE, end |-> t + d]
    ELSE IF session = "error"
    THEN [file |-> file, status |-> 400, writes |-> 0, asked |-> TRUE,
          armed |-> FALSE, end |-> t + d]
    ELSE [file |-> storeTokens(accessToken, refreshTok, "oauth", t + d),
          status |-> 200, writes |-> 1, asked |-> TRUE, armed |-> TRUE,
          end |-> t + d]

\* The access_token and refresh_token query parameters of the requests
\* for /callback that are modelled.
CallbackQueries ==
    {<<"at1", "rt1">>, <<"at2", "rt2">>, <<"at1", Undefined>>,
     <<Undefined, "rt1">>, <<Undefined, Undefined>>}

\* A request for /callback arrives w milliseconds after the previous
\* event of the login run, before any timer is due.
Callback ==
    /\ login.listening
    /\ \E q \in CallbackQueries,
          session \in {"ok", "error", "throws"}, d \in Elapsed,
          w \in WaitMs :
          LET accessToken == q[1]
              refreshTok == q[2]
              r == callback(tokenFile, now, accessToken, refreshTok,
                            session, d)
              at == login.clock + w
          IN  /\ r.end <= MaxClock
              /\ at <= MaxLoginMs
              /\ NoTimerDue(login, at)
              /\ now' = r.end
              /\ tokenFile' = r.file
              /\ login' = [login EXCEPT
                              !.clock = at,
                              !.successAt =
                                  IF r.armed /\ login.successAt = NoTimer
                                  THEN at + SuccessDelayMs
                                  ELSE login.successAt]
              /\ last' = [op |-> "callback", start |-> now,
                          access_token |-> accessToken,
                          refresh_token |-> refreshTok,
                          session |-> IF r.asked THEN session ELSE "notasked",
                          status |-> r.status, writes |-> r.writes]
    /\ UNCHANGED envApiKey
    /\ UNCHANGED nonAuthVars

\* The timer set by a successful callback fires: serverHandle.close(),
\* process.exit(0).
SuccessTimer ==
    /\ login.successAt # NoTimer
    /\ login.timeoutAt # NoTimer => login.successAt <= login.timeoutAt
    /\ login' = LoginIdle
    /\ last' = [op |-> "exit", code |-> 0, closed |-> TRUE,
                cause |-> "success", stored |-> TRUE,
                returned |-> login.pc = "waiting"]
    /\ UNCHANGED <<now, envApiKey, tokenFile>>
    /\ UNCHANGED nonAuthVars

\* The 60 second timer calling process.exit(1) without closing the server.
TimeoutTimer_NoClose ==
    /\ login.timeoutAt # NoTimer
    /\ login.successAt # NoTimer => login.timeoutAt <= login.successAt
    /\ login' = LoginIdle
    /\ last' = [op |-> "exit", code |-> 1, closed |-> FALSE,
                cause |-> "timeout",
                stored |-> login.successAt # NoTimer,
                returned |-> TRUE]
    /\ UNCHANGED <<now, envApiKey, tokenFile>>
    /\ UNCHANGED nonAuthVars

\* The 60 second timer fires: serverHandle.close(), process.exit(1).
TimeoutTimer ==
    /\ login.timeoutAt # NoTimer
    /\ login.successAt # NoTimer => login.timeoutAt <= login.successAt
    /\ login' = LoginIdle
    /\ last' = [op |-> "exit", code |-> 1, closed |-> TRUE,
                cause |-> "timeout",
                stored |-> login.successAt # NoTimer,
                returned |-> TRUE]
    /\ UNCHANGED <<now, envApiKey, tokenFile>>
    /\ UNCHANGED nonAuthVars

Next ==
    \/ Tick
    \/ GetValidTokens
    \/ AuthenticateWithApiKey
    \/ LoginStart
    \/ LoginOpen
    \/ Callback
    \/ SuccessTimer
    \/ TimeoutTimer

Spec == Init /\ [][Next]_vars

----------------------------------------------------------------------------
(* The template cache as a system of its own *)

TemplateInitClock == 1500  \* clock value of the initial state, in minutes
MaxTemplateClock == 1501   \* the clock is not advanced beyond this value
MaxTempDirs == 1           \* temporary directories that may pile up

InitFetchedAt ==
    {ToISOString(TemplateInitClock - 25 * MinutesPerHour),
     ToISOString(TemplateInitClock - StaleHours * MinutesPerHour - 1),
     ToISOString(TemplateInitClock - StaleHours * MinutesPerHour),
     ToISOString(TemplateInitClock - MinutesPerHour),
     InvalidDateString}

\* The directories an earlier run can have left for template n; the initial
\* state has one template cached.
InitEntries(n) ==
    {NoDir}
    \cup {[exists |-> TRUE, files |-> CopiedFiles(n), meta |-> m] :
            m \in {NoFile, Garbage}
                  \cup {JSONStringify(MkMetadata(c, n)) : c \in InitFetchedAt}}

InitTemplate ==
    /\ now = TemplateInitClock
    /\ envApiKey = NoEnvKey
    /\ tokenFile = NoFile
    /\ login = LoginIdle
    /\ last = NoOp
    /\ \E cached \in DOMAIN RemoteTemplates :
       \E entry \in InitEntries(cached) :
          cache = [n \in TemplateNames |-> IF n = cached THEN entry ELSE NoDir]
    /\ tempDirs = 0
    /\ project = NoProject
    /\ remote = NoRemote

\* The surroundings of one fetchTemplate run: whether git clone and cp
\* succeed, whether the contents API answers, and whether
\* listAvailableTemplates succeeds.  cp is tried only after a clone, the
\* API only after a failure of one of them, the listing only after a
\* failure of the API.
FetchRuns ==
    {[clone |-> "ok", cp |-> "ok", apiUp |-> TRUE, listOk |-> TRUE],
     [clone |-> "ok", cp |-> "fail", apiUp |-> TRUE, listOk |-> TRUE],
     [clone |-> "ok", cp |-> "fail", apiUp |-> FALSE, listOk |-> TRUE],
     [clone |-> "fail", cp |-> "ok", apiUp |-> TRUE, listOk |-> TRUE],
     [clone |-> "fail", cp |-> "ok", apiUp |-> FALSE, listOk |-> TRUE],
     [clone |-> "fail", cp |-> "ok", apiUp |-> FALSE, listOk |-> FALSE]}

FetchTemplate ==
    \E templateName \in TemplateNames, run \in FetchRuns, d \in Elapsed :
       \E r \in {fetchTemplate(templateName, cache[templateName], now,
                               run.clone, run.cp, run.apiUp, run.listOk, d)} :
           /\ r.end <= MaxTemplateClock
           /\ tempDirs + r.tempLeft <= MaxTempDirs
           /\ now' = r.end
           /\ cache' = [cache EXCEPT ![templateName] = r.entry]
           /\ tempDirs' = tempDirs + r.tempLeft
           /\ last' = [op |-> "fetchTemplate", name |-> templateName,
                       start |-> now, returned |-> r.returned,
                       error |-> r.error, fetched |-> r.fetched,
                       clones |-> r.clones, fallbacks |-> r.fallbacks,
                       requests |-> r.requests, lists |-> r.lists,
                       listed |-> r.listed, downloaded |-> r.downloaded,
                       clone |-> run.clone, cp |-> run.cp]
           /\ UNCHANGED nonTemplateVars

NextTemplate == FetchTemplate

SpecTemplate == InitTemplate /\ [][NextTemplate]_vars

----------------------------------------------------------------------------
(* The site operations as a system of their own *)

RefreshOk ==
    [kind |-> "session", access_token |-> "at2", refresh_token |-> "rt2"]

\* The surroundings of one run: the provider's answer to a refresh,
\* whether getSession yields a session, the answers of the hosted API to
\* the upload key request and to the request on the site, the answer of
\* the upload service, and the minutes the upload takes.  All goes well
\* in AllWell; every other scenario differs from it in one respect, and
\* in the last one the refresh fails after a slow upload.
AllWell ==
    [prov |-> RefreshOk, session |-> "ok", keyApi |-> "ok", pin |-> "ok",
     du |-> 0, api |-> "ok"]

Scenarios ==
    {AllWell,
     [AllWell EXCEPT !.prov = [kind |-> "error"]],
     [AllWell EXCEPT !.session = "none"],
     [AllWell EXCEPT !.keyApi = "reject"],
     [AllWell EXCEPT !.keyApi = "down"],
     [AllWell EXCEPT !.pin = "fail"],
     [AllWell EXCEPT !.du = 2],
     [AllWell EXCEPT !.api = "reject"],
     [AllWell EXCEPT !.api = "down"],
     [AllWell EXCEPT !.du = 2, !.prov = [kind |-> "error"]]}

\* The credentials a run of a site operation can find: none, a stored API
\* key, an OAuth record 54 minutes old and one 56 minutes old, or the
\* environment key with nothing stored.
InitSiteFiles ==
    {NoFile,
     JSONStringify(MkTokenData("key1", Undefined, ToISOString(InitClock),
                               "apikey")),
     JSONStringify(MkTokenData("at1", "rt1",
                               ToISOString(InitClock - ExpiryMinutes + 1),
                               "oauth")),
     JSONStringify(MkTokenData("at1", "rt1",
                               ToISOString(InitClock - ExpiryMinutes - 1),
                               "oauth"))}

InitSites ==
    /\ now = InitClock
    /\ envApiKey \in EnvKeys
    /\ tokenFile \in InitSiteFiles
    /\ envApiKey # NoEnvKey => tokenFile = NoFile
    /\ login = LoginIdle
    /\ last = NoOp
    /\ cache = [n \in TemplateNames |-> NoDir]
    /\ tempDirs   = 0
    /\ \E target \in Targets :
          project = [target |-> target, config |-> NoFile, custom |-> NoFile]
    /\ \E site \in {NoSite, MkSite("cid0")} :
          remote = [pins |-> {}, site |-> site, functions |-> {}]

\* What a finished run leaves in last; the value returned goes with the
\* name of the operation that returned it.
SiteRecord(op, r) ==
    [op |-> op, start |-> now, ret |-> <<op, r.ret>>,
     requests |-> r.requests,
     out |-> r.out, authed |-> r.authed, effect |-> r.effect,
     upload |-> r.upload]

\* The hosted API and the upload service after a finished run r.
RemoteAfter(r) ==
    [pins |-> remote.pins \cup r.pins,
     site |-> IF r.effect \in {"created", "updated"}
              THEN MkSite(r.upload.data.IpfsHash)
              ELSE IF r.effect = "deleted" THEN NoSite
              ELSE IF r.effect = "rolledback" THEN MkSite("cid0")
              ELSE remote.site,
     functions |-> IF r.effect = "function"
                   THEN remote.functions \cup {SiteId}
                   ELSE remote.functions]

UploadSite ==
    \E sc \in Scenarios :
       \E u \in {uploadSite(envApiKey, tokenFile, now, project.target,
                           sc.prov, sc.session, sc.keyApi, sc.pin, sc.du)} :
       \E r \in {SiteRun(u, u.ret, u.file, u.end, <<>>, <<>>, "none")} :
           /\ r.end <= MaxClock
           /\ now' = r.end
           /\ tokenFile' = r.file
           /\ remote' = RemoteAfter(r)
           /\ last' = SiteRecord("uploadSite", r)
           /\ UNCHANGED <<envApiKey, project>>
           /\ UNCHANGED nonSiteVars

CreateSite ==
    \E quiet \in BOOLEAN, sc \in Scenarios :
       \E r \in {createSite(envApiKey, tokenFile, now, project.target,
                           SiteDomain, quiet, remote.site, sc.prov,
                           sc.session, sc.keyApi, sc.pin, sc.du, sc.api)} :
           /\ r.end <= MaxClock
           /\ now' = r.end
           /\ tokenFile' = r.file
           /\ remote' = RemoteAfter(r)
           /\ last' = SiteRecord("createSite", r)
           /\ UNCHANGED <<envApiKey, project>>
           /\ UNCHANGED nonSiteVars

UpdateSite ==
    \E by \in {<<SiteId, Undefined>>, <<Undefined, SiteDomain>>},
       quiet \in BOOLEAN, sc \in Scenarios :
       \E r \in {updateSite(envApiKey, tokenFile, now, project.target, by[1],
                           by[2], quiet, remote.site, sc.prov, sc.session,
                           sc.keyApi, sc.pin, sc.du, sc.api)} :
           /\ r.end <= MaxClock
           /\ now' = r.end
           /\ tokenFile' = r.file
           /\ remote' = RemoteAfter(r)
           /\ last' = SiteRecord("updateSite", r)
           /\ UNCHANGED <<envApiKey, project>>
           /\ UNCHANGED nonSiteVars

ListSites ==
    \E call \in {<<Undefined, FALSE>>, <<SiteDomain, TRUE>>},
       sc \in Scenarios :
       \E l \in {listSites(envApiKey, tokenFile, now, call[1], call[2],
                          remote.site, sc.prov, sc.session, sc.api)} :
       \E r \in {[ret |-> l.ret.ok, file |-> l.file, end |-> l.end,
                 requests |-> l.requests, out |-> l.out, pins |-> {},
                 authed |-> l.authed, effect |-> "none",
                 upload |-> NoUpload]} :
           /\ r.end <= MaxClock
           /\ now' = r.end
           /\ tokenFile' = r.file
           /\ remote' = RemoteAfter(r)
           /\ last' = SiteRecord(IF call[2] THEN "listSites quiet" ELSE "listSites", r)
           /\ UNCHANGED <<envApiKey, project>>
           /\ UNCHANGED nonSiteVars

DeleteSite ==
    \E sc \in Scenarios :
       \E r \in {deleteSite(envApiKey, tokenFile, now, SiteId, remote.site,
                           sc.prov, sc.session, sc.api)} :
           /\ r.end <= MaxClock
           /\ now' = r.end
           /\ tokenFile' = r.file
           /\ remote' = RemoteAfter(r)
           /\ last' = SiteRecord("deleteSite", r)
           /\ UNCHANGED <<envApiKey, project>>
           /\ UNCHANGED nonSiteVars

ListVersions ==
    \E sc \in Scenarios :
       \E v \in {listVersions(envApiKey, tokenFile, now, SiteDomain,
                             remote.site, sc.prov, sc.session, sc.api)} :
       \E r \in {[v EXCEPT !.ret = v.ret.ok]} :
           /\ r.end <= MaxClock
           /\ now' = r.end
           /\ tokenFile' = r.file
           /\ remote' = RemoteAfter(r)
           /\ last' = SiteRecord("listVersions", r)
           /\ UNCHANGED <<envApiKey, project>>
           /\ UNCHANGED nonSiteVars

RollbackSite ==
    \E sc \in Scenarios :
       \E r \in {rollbackSite(envApiKey, tokenFile, now, SiteDomain, "cid0",
                             remote.site, sc.prov, sc.session, sc.api)} :
           /\ r.end <= MaxClock
           /\ now' = r.end
           /\ tokenFile' = r.file
           /\ remote' = RemoteAfter(r)
           /\ last' = SiteRecord("rollbackSite", r)
           /\ UNCHANGED <<envApiKey, project>>
           /\ UNCHANGED nonSiteVars

DeployToOrbiter ==
    \E sc \in Scenarios :
       \E r \in {deployToOrbiter(envApiKey, tokenFile, now, SiteId,
                                remote.site, sc.prov, sc.api)} :
           /\ r.end <= MaxClock
           /\ now' = r.end
           /\ tokenFile' = r.file
           /\ remote' = RemoteAfter(r)
           /\ last' = SiteRecord("deployToOrbiter", r)
           /\ UNCHANGED <<envApiKey, project>>
           /\ UNCHANGED nonSiteVars

NextSites ==
    \/ UploadSite
    \/ CreateSite
    \/ UpdateSite
    \/ ListSites
    \/ DeleteSite
    \/ ListVersions
    \/ RollbackSite
    \/ DeployToOrbiter

SpecSites == InitSites /\ [][NextSites]_vars

----------------------------------------------------------------------------
(* Deployment as a system of its own *)

StoredConfig(siteId) ==
    JSONStringify(MkConfig(siteId, SiteDomain, "npm run build", "dist"))

MaxDeployClock == 58       \* no deployment is started later than this

\* The calls of deploySite and their surroundings: the options, the
\* scenario, the answer to "Would you like to" and whether the build
\* succeeds.  Every run differs from the plain one in one respect.
PlainRun ==
    [opts |-> NoOptions, sc |-> AllWell, action |-> "new", build |-> "ok"]

DeployRuns ==
    {PlainRun,
     [PlainRun EXCEPT !.opts = [NoOptions EXCEPT !.spinner = TRUE]],
     [PlainRun EXCEPT !.opts = [NoOptions EXCEPT !.configPath = "custom.json"]],
     [PlainRun EXCEPT !.opts = [NoOptions EXCEPT !.siteId = SiteId]],
     [PlainRun EXCEPT !.opts = [NoOptions EXCEPT !.domain = SiteDomain]],
     [PlainRun EXCEPT !.opts = [NoOptions EXCEPT !.buildDir = "out"]],
     [PlainRun EXCEPT !.opts = [NoOptions EXCEPT !.domain = SiteDomain,
                                                 !.configPath = "custom.json"]],
     [PlainRun EXCEPT !.opts = MkOptions(SiteId, SiteDomain, "make", "out",
                                         Undefined, FALSE)],
     [PlainRun EXCEPT !.sc = [AllWell EXCEPT !.api = "reject"]],
     [PlainRun EXCEPT !.sc = [AllWell EXCEPT !.api = "down"]],
     [PlainRun EXCEPT !.sc = [AllWell EXCEPT !.pin = "fail"]],
     [PlainRun EXCEPT !.sc = [AllWell EXCEPT !.session = "none"]],
     [PlainRun EXCEPT !.action = "existing"],
     [PlainRun EXCEPT !.build = "fail"]}

InitDeploy ==
    /\ now = InitClock
    /\ envApiKey = NoEnvKey
    /\ tokenFile \in InitSiteFiles
    /\ login = LoginIdle
    /\ last = NoOp
    /\ cache = [n \in TemplateNames |-> NoDir]
    /\ tempDirs = 0
    /\ \E target \in {DirTarget({<<"index.html">>, <<"style.css">>}),
                      DirTarget({<<"about.html">>})},
          config \in {NoFile, Garbage, StoredConfig(SiteId),
                      StoredConfig(Undefined)},
          custom \in {NoFile, StoredConfig(SiteId), StoredConfig(Undefined)} :
          project = [target |-> target, config |-> config, custom |-> custom]
    /\ \E site \in {NoSite, MkSite("cid0")} :
          remote = [pins |-> {}, site |-> site, functions |-> {}]

DeploySite ==
    \E run \in DeployRuns :
       \E r \in {deploySite(run.opts, envApiKey, tokenFile, now, project,
                           remote.site, run.sc, MkAnswers(run.action),
                           run.build)} :
           /\ now < MaxDeployClock
           /\ now' = r.end
           /\ tokenFile' = r.file
           /\ project' = [project EXCEPT !.config = r.cwd]
           /\ remote' = [remote EXCEPT
                           !.pins = @ \cup r.pins,
                           !.site = IF r.effect \in {"created", "updated"}
                                    THEN MkSite(r.cid) ELSE @]
           /\ last' = [op |-> "deploySite", start |-> now,
                       opts |-> run.opts, ret |-> r.ret,
                       events |-> r.events, out |-> r.out,
                       effect |-> r.effect, fromFile |-> r.fromFile,
                       api |-> run.sc.api]
           /\ UNCHANGED envApiKey
           /\ UNCHANGED nonSiteVars

NextDeploy ==
    \/ DeploySite

SpecDeploy == InitDeploy /\ [][NextDeploy]_vars

----------------------------------------------------------------------------
(* Server deployment: specification *)

\* Configuration files of a server project: a complete one, one with
\* only the required fields, and one written by a site deployment, which
\* has no entryPath.
StoredServerConfig ==
    JSONStringify(MkServerConfig(SiteId, "server.ts",
                                 generateDefaultBuildCommand("server.ts",
                                                             "out"),
                                 "out"))

MinimalServerConfig ==
    JSONStringify([siteId |-> SiteId, entryPath |-> "server.ts"])

\* The calls of deployServerCommand and their surroundings; every run
\* differs from the plain one in one respect, the last but one in two.
PlainServerRun ==
    [opts |-> NoServerOptions, sc |-> AllWell, build |-> "ok"]

ServerRuns ==
    {PlainServerRun,
     [PlainServerRun EXCEPT
        !.opts = [NoServerOptions EXCEPT !.configPath = "custom.json"]],
     [PlainServerRun EXCEPT
        !.opts = [NoServerOptions EXCEPT !.buildCommand = "make"]],
     [PlainServerRun EXCEPT
        !.opts = [NoServerOptions EXCEPT !.siteId = SiteId]],
     [PlainServerRun EXCEPT
        !.opts = MkServerOptions(SiteId, "src/index.ts", Undefined,
                                 Undefined, Undefined)],
     [PlainServerRun EXCEPT
        !.opts = MkServerOptions(SiteId, "src/index.ts", "dist", Undefined,
                                 Undefined)],
     [PlainServerRun EXCEPT
        !.opts = MkServerOptions(SiteId, "src/index.ts", "dist", "make",
                                 "custom.json")],
     [PlainServerRun EXCEPT !.sc = [AllWell EXCEPT !.api = "reject"]],
     [PlainServerRun EXCEPT !.sc = [AllWell EXCEPT !.api = "down"]],
     [PlainServerRun EXCEPT !.sc = [AllWell EXCEPT !.api = "other"]],
     [PlainServerRun EXCEPT
        !.opts = MkServerOptions(SiteId, "src/index.ts", "dist", Undefined,
                                 Undefined),
        !.sc = [AllWell EXCEPT !.api = "reject"]],
     [PlainServerRun EXCEPT
        !.opts = MkServerOptions(SiteId, "src/index.ts", "dist", Undefined,
                                 Undefined),
        !.sc = [AllWell EXCEPT !.api = "other"]],
     [PlainServerRun EXCEPT !.build = "fail"]}

InitServer ==
    /\ now = InitClock
    /\ envApiKey = NoEnvKey
    /\ tokenFile \in InitSiteFiles
    /\ login = LoginIdle
    /\ last = NoOp
    /\ cache = [n \in TemplateNames |-> NoDir]
    /\ tempDirs = 0
    /\ \E config \in {NoFile, Garbage, StoredServerConfig,
                       MinimalServerConfig, StoredConfig(SiteId)},
          custom \in {NoFile, StoredServerConfig} :
          project = [target |-> NoTarget, config |-> config,
                     custom |-> custom]
    /\ \E site \in {NoSite, MkSite("cid0")} :
          remote = [pins |-> {}, site |-> site, functions |-> {}]

DeployServerCommand ==
    \E run \in ServerRuns :
       \E r \in {deployServerCommand(run.opts, envApiKey, tokenFile, now,
                                     project, remote.site, run.sc,
                                     run.build)} :
           /\ now < MaxDeployClock
           /\ now' = r.end
           /\ tokenFile' = r.file
           /\ project' = [project EXCEPT !.config = r.cwd]
           /\ remote' = [remote EXCEPT
                           !.functions = IF r.effect = "function"
                                         THEN @ \cup {r.siteId} ELSE @]
           /\ last' = [op |-> "deployServerCommand", start |-> now,
                       opts |-> run.opts, ret |-> r.ret,
                       events |-> r.events, out |-> r.out,
                       effect |-> r.effect, source |-> r.source,
                       api |-> run.sc.api]
           /\ UNCHANGED envApiKey
           /\ UNCHANGED nonSiteVars

\* deploySite({server: true, configPath}).
DeploySiteServer ==
    \E configPath \in {Undefined, "custom.json"}, run \in ServerRuns :
       \E r \in {deployServer(configPath, envApiKey, tokenFile, now, project,
                              remote.site, run.sc, run.build)} :
           /\ run.opts = NoServerOptions
           /\ now < MaxDeployClock
           /\ now' = r.end
           /\ tokenFile' = r.file
           /\ project' = [project EXCEPT !.config = r.cwd]
           /\ remote' = [remote EXCEPT
                           !.functions = IF r.effect = "function"
                                         THEN @ \cup {r.siteId} ELSE @]
           /\ last' = [op |-> "deploySite server", start |-> now,
                       opts |-> [NoServerOptions EXCEPT
                                   !.configPath = configPath],
                       ret |-> IF r.ret = "returned" THEN "true" ELSE "false",
                       events |-> r.events, out |-> r.out,
                       effect |-> r.effect, source |-> r.source,
                       api |-> run.sc.api]
           /\ UNCHANGED envApiKey
           /\ UNCHANGED nonSiteVars

NextServer ==
    \/ DeployServerCommand
    \/ DeploySiteServer

SpecServer == InitServer /\ [][NextServer]_vars

----------------------------------------------------------------------------
(* Scaffolding: specification *)

\* The runs of createTemplateApp; every run differs from the plain one in
\* one respect.
PlainScaffold ==
    [listing |-> "ok", clone |-> "ok", cp |-> "ok", apiUp |-> TRUE,
     install |-> "ok", sc |-> AllWell, build |-> "ok", server |-> "ok"]

ScaffoldRuns ==
    {PlainScaffold,
     [PlainScaffold EXCEPT !.listing = "fail"],
     [PlainScaffold EXCEPT !.clone = "fail"],
     [PlainScaffold EXCEPT !.clone = "fail", !.apiUp = FALSE],
     [PlainScaffold EXCEPT !.cp = "fail"],
     [PlainScaffold EXCEPT !.install = "fail"],
     [PlainScaffold EXCEPT !.sc = [AllWell EXCEPT !.api = "reject"]],
     [PlainScaffold EXCEPT !.sc = [AllWell EXCEPT !.api = "down"]],
     [PlainScaffold EXCEPT !.sc = [AllWell EXCEPT !.pin = "fail"]],
     [PlainScaffold EXCEPT !.sc = [AllWell EXCEPT !.session = "none"]],
     [PlainScaffold EXCEPT !.build = "fail"],
     [PlainScaffold EXCEPT !.server = "fail"]}

\* The templates that are chosen: a plain one and the monorepo.
ScaffoldTemplates == {"flat", "bhvr"}

\* The new project has no orbiter.json; its build writes a directory
\* with or without an index.html.
InitScaffold ==
    /\ now = InitClock
    /\ envApiKey = NoEnvKey
    /\ tokenFile \in InitSiteFiles
    /\ login = LoginIdle
    /\ last = NoOp
    /\ cache = [n \in TemplateNames |-> NoDir]
    /\ tempDirs = 0
    /\ \E target \in {DirTarget({<<"index.html">>, <<"style.css">>}),
                      DirTarget({<<"about.html">>})} :
          project = [target |-> target, config |-> NoFile, custom |-> NoFile]
    /\ \E site \in {NoSite, MkSite("cid0")} :
          remote = [pins |-> {}, site |-> site, functions |-> {}]

CreateTemplateApp ==
    \E template \in ScaffoldTemplates, packageManager \in {"npm"},
       run \in ScaffoldRuns :
       \E r \in {createTemplateApp(template, packageManager, run, envApiKey,
                                   tokenFile, now, cache[template], project,
                                   remote.site)} :
           /\ now < MaxDeployClock
           /\ tempDirs + r.tempLeft <= MaxTempDirs
           /\ now' = r.end
           /\ tokenFile' = r.file
           /\ cache' = [cache EXCEPT ![template] = r.entry]
           /\ tempDirs' = tempDirs + r.tempLeft
           /\ project' = [project EXCEPT !.config = r.cwd]
           /\ remote' = [remote EXCEPT
                           !.pins = @ \cup r.pins,
                           !.site = IF r.effect \in {"created", "updated"}
                                    THEN MkSite(r.cid) ELSE @,
                           !.functions = @ \cup r.functions]
           /\ last' = [op |-> "createTemplateApp", start |-> now,
                       template |-> template, deployRet |-> r.deployRet,
                       events |-> r.events, out |-> r.out,
                       inner |-> r.inner, effect |-> r.effect,
                       fetched |-> r.fetched]
           /\ UNCHANGED <<envApiKey, login>>

NextScaffold ==
    \/ CreateTemplateApp

SpecScaffold == InitScaffold /\ [][NextScaffold]_vars

----------------------------------------------------------------------------
(* Properties *)

IsRecordFile(f) == f.kind = "json"

KeyTypeOf(f) ==
    IF IsRecordFile(f) /\ HasProp(f.obj, "keyType") THEN f.obj.keyType
    ELSE Undefined

IsApiKeyFile(f) == KeyTypeOf(f) = "apikey"
IsOAuthFile(f) == KeyTypeOf(f) = "oauth"

HasValidDate(f) ==
    /\ IsRecordFile(f)
    /\ HasProp(f.obj, "created_at")
    /\ DateGetTime(f.obj.created_at) # NaN

\* minutes between the record's created_at and minute t
AgeAt(f, t) == t - DateGetTime(f.obj.created_at)

RefreshTokenOf(o) ==
    IF HasProp(o, "refresh_token") THEN o.refresh_token ELSE Undefined

Lines(log) == {log[i] : i \in DOMAIN log}

ResolverRan(l) == l.op = "getValidTokens"

\* C1: with no environment key, the resolver returns a stored API-key
\* record exactly as stored, whatever its created_at, calls no refresh and
\* does not write the credential file.
C1_ApiKeyReturnedAsStored ==
    [][(ResolverRan(last') /\ envApiKey = NoEnvKey /\ IsApiKeyFile(tokenFile))
        => /\ last'.result = Some(tokenFile.obj)
           /\ last'.refreshCalls = 0
           /\ last'.writes = 0
           /\ tokenFile' = tokenFile]_vars

\* An API-key record older than 55 minutes was returned as stored.
C1_Witness ==
    /\ ResolverRan(last)
    /\ envApiKey = NoEnvKey
    /\ IsApiKeyFile(tokenFile) /\ HasValidDate(tokenFile)
    /\ AgeAt(tokenFile, last.start) > ExpiryMinutes
    /\ last.result = Some(tokenFile.obj)
    /\ last.refreshCalls = 0

\* C2: with no environment key, an OAuth record created less than 55
\* minutes before the call is returned unchanged, with no refresh call and
\* no change of the credential file.
C2_FreshOAuthReturnedAsStored ==
    [][(/\ ResolverRan(last') /\ envApiKey = NoEnvKey
        /\ IsOAuthFile(tokenFile) /\ HasValidDate(tokenFile)
        /\ AgeAt(tokenFile, now) < ExpiryMinutes)
        => /\ last'.result = Some(tokenFile.obj)
           /\ last'.refreshCalls = 0
           /\ last'.writes = 0
           /\ tokenFile' = tokenFile]_vars

\* An OAuth record 54 minutes old was returned as stored.
C2_Witness ==
    /\ ResolverRan(last)
    /\ envApiKey = NoEnvKey
    /\ IsOAuthFile(tokenFile) /\ HasValidDate(tokenFile)
    /\ AgeAt(tokenFile, last.start) = ExpiryMinutes - 1
    /\ last.result = Some(tokenFile.obj)
    /\ last.refreshCalls = 0

C4_RefreshStoresNewRecord ==
    [][(ResolverRan(last') /\ last'.prov.kind = "session")
        => /\ IsOAuthFile(tokenFile) /\ HasValidDate(tokenFile)
           /\ IsOAuthFile(tokenFile') /\ HasValidDate(tokenFile')
           /\ tokenFile'.obj.access_token = last'.prov.access_token
           /\ RefreshTokenOf(tokenFile'.obj) = last'.prov.refresh_token
           /\ DateGetTime(tokenFile'.obj.created_at)
                 > DateGetTime(tokenFile.obj.created_at)
           /\ last'.result.present
           /\ last'.result.tokens.access_token = last'.prov.access_token
           /\ RefreshTokenOf(last'.result.tokens) = last'.prov.refresh_token
           /\ last'.result.tokens.keyType = "oauth"]_vars

\* A refresh answered with the session at2/rt2 replaced the stored record.
C4_Witness ==
    /\ ResolverRan(last)
    /\ last.prov.kind = "session"
    /\ last.prov.access_token = "at2"
    /\ IsOAuthFile(tokenFile)
    /\ tokenFile.obj.access_token = "at2"
    /\ RefreshTokenOf(tokenFile.obj) = "rt2"
    /\ last.result.present

\* C5: when the refresh of an expired OAuth record fails (error, no
\* session, exception), the resolver returns null, has called the refresh
\* once only, and the credential file is as before the call.
C5_FailedRefreshReturnsNull ==
    [][(/\ ResolverRan(last') /\ envApiKey = NoEnvKey
        /\ IsOAuthFile(tokenFile) /\ HasValidDate(tokenFile)
        /\ AgeAt(tokenFile, now) > ExpiryMinutes
        /\ last'.prov.kind # "session")
        => /\ last'.result = None
           /\ last'.refreshCalls = 1
           /\ last'.writes = 0
           /\ tokenFile' = tokenFile]_vars

\* The refresh call threw and the resolver returned null.
C5_Witness ==
    /\ ResolverRan(last)
    /\ last.prov.kind = "throws"
    /\ last.result = None
    /\ last.refreshCalls = 1
    /\ IsOAuthFile(tokenFile)

\* C6: a credential file that is not parseable JSON is handled as a
\* missing file is: the load yields nothing, the resolver (no environment
\* key) returns null and prints the request to authenticate, calls no
\* refresh, lets no exception escape and does not modify the file.
C6_MalformedFileAsAbsent ==
    [][(/\ ResolverRan(last') /\ envApiKey = NoEnvKey
        /\ tokenFile.kind \in {"garbage", "nofile"})
        => /\ getStoredTokens(tokenFile).value = None
           /\ last'.result = None
           /\ MsgNoTokens \in Lines(last'.log)
           /\ last'.refreshCalls = 0
           /\ last'.writes = 0
           /\ tokenFile' = tokenFile]_vars

\* The resolver ran on an unparseable file and returned null.
C6_Witness ==
    /\ ResolverRan(last)
    /\ envApiKey = NoEnvKey
    /\ tokenFile = Garbage
    /\ last.result = None
    /\ MsgNoTokens \in Lines(last.log)

\* C7: when ORBITER_API_KEY is set to a non-empty value the resolver
\* returns a credential with that value as access_token and key type
\* apikey, for every state of the credential file, without loading or
\* writing the file and without a refresh call.
C7_EnvironmentKeyWins ==
    [][(ResolverRan(last') /\ envApiKey # NoEnvKey)
        => /\ last'.result.present
           /\ last'.result.tokens.access_token = envApiKey
           /\ last'.result.tokens.keyType = "apikey"
           /\ last'.reads = 0
           /\ last'.writes = 0
           /\ last'.refreshCalls = 0
           /\ tokenFile' = tokenFile]_vars

\* With the environment key set, the resolver ran over an expired OAuth
\* record and returned the environment key.
C7_Witness ==
    /\ ResolverRan(last)
    /\ envApiKey # NoEnvKey
    /\ IsOAuthFile(tokenFile) /\ HasValidDate(tokenFile)
    /\ AgeAt(tokenFile, last.start) > ExpiryMinutes
    /\ last.result.present
    /\ last.result.tokens.access_token = envApiKey

\* C8: after a /callback request with an access token and a refresh token
\* that the provider accepts, the credential file holds a record with key
\* type oauth and those two tokens, and the answer is HTTP 200.
C8_CallbackStoresOAuthRecord ==
    (/\ last.op = "callback"
     /\ last.access_token # Undefined
     /\ last.refresh_token # Undefined
     /\ last.session = "ok")
    => /\ IsOAuthFile(tokenFile)
       /\ tokenFile.obj.access_token = last.access_token
       /\ RefreshTokenOf(tokenFile.obj) = last.refresh_token
       /\ last.status = 200

\* A callback with at2/rt2 was accepted and stored.
C8_Witness ==
    /\ last.op = "callback"
    /\ last.access_token = "at2"
    /\ last.refresh_token = "rt2"
    /\ last.session = "ok"
    /\ last.status = 200
    /\ IsOAuthFile(tokenFile)

\* C9: authenticateWithApiKey writes the credential file if and only if
\* the validation request returned a success status; otherwise the file is
\* as it was, and on success the record written has key type apikey, the
\* key as access_token and no refresh token.
C9_ApiKeyStoredIffValid ==
    [][(last'.op = "authenticateWithApiKey")
        => /\ (last'.writes = 1) <=> (last'.resp = "ok")
           /\ last'.resp # "ok" => tokenFile' = tokenFile
           /\ last'.resp = "ok"
              => /\ IsApiKeyFile(tokenFile')
                 /\ tokenFile'.obj.access_token = last'.apiKey
                 /\ ~HasProp(tokenFile'.obj, "refresh_token")]_vars

\* A key was rejected while an OAuth record was stored; the record is
\* still there.
C9_Witness ==
    /\ last.op = "authenticateWithApiKey"
    /\ last.resp = "notok"
    /\ last.writes = 0
    /\ IsOAuthFile(tokenFile)

\* The operation recorded in l wrote a credential: an accepted callback, a
\* validated API key or a refresh answered with a session.
Succeeded(l) ==
    \/ l.op = "callback" /\ l.session = "ok"
    \/ l.op = "authenticateWithApiKey" /\ l.resp = "ok"
    \/ l.op = "getValidTokens" /\ l.prov.kind = "session"

\* The tokens and key type of the record a successful operation writes.
WrittenBy(l) ==
    IF l.op = "callback"
    THEN <<l.access_token, l.refresh_token, "oauth">>
    ELSE IF l.op = "authenticateWithApiKey"
    THEN <<l.apiKey, Undefined, "apikey">>
    ELSE <<l.prov.access_token, l.prov.refresh_token, "oauth">>

\* C10: the credential file changes only by a successful login, key
\* registration or refresh, which replaces its content by the one record
\* of that operation; so the file holds the record of the most recent
\* successful operation, and a file that exists is never removed.
C10_SingleLatestRecord ==
    [][/\ Succeeded(last')
          => /\ IsRecordFile(tokenFile') /\ HasValidDate(tokenFile')
             /\ <<tokenFile'.obj.access_token, RefreshTokenOf(tokenFile'.obj),
                  KeyTypeOf(tokenFile')>> = WrittenBy(last')
             /\ DateGetTime(tokenFile'.obj.created_at) \in last'.start..now'
       /\ ~Succeeded(last') => tokenFile' = tokenFile
       /\ tokenFile # NoFile => tokenFile' # NoFile]_vars

\* A callback was rejected after the key key2 had been registered; the
\* API-key record is still there.
C10_Witness ==
    /\ last.op = "callback"
    /\ last.status = 400
    /\ IsApiKeyFile(tokenFile)
    /\ tokenFile.obj.access_token = "key2"

\* C11 as stated: a login run whose 60 second timer was set ends by the
\* timeout only if no callback succeeded, and exits with status 0 whenever
\* a callback succeeded and stored the record.
C11_Original ==
    (last.op = "exit" /\ last.returned)
    => /\ last.cause = "timeout" => ~last.stored
       /\ last.stored => last.code = 0

\* C12 as stated: every exit of the login command is preceded by
\* serverHandle.close(), and login() has not returned to its caller while
\* the listener accepts requests.
C12_Original ==
    /\ last.op = "exit" => last.closed
    /\ login.pc = "waiting" => ~login.listening

\* C12 amended: the success timer and the 60 second timer call
\* serverHandle.close() before process.exit; a failure of signInWithOAuth
\* or open ends the process with status 1 without close(); after login()
\* has returned the listener stays open with the 60 second timer set, and
\* no listener is left once the process has exited.
C12_ListenerEndsWithProcess ==
    /\ last.op = "exit"
       => /\ last.cause \in {"success", "timeout"} => last.closed
          /\ last.cause = "error" => (~last.closed /\ last.code = 1)
          /\ ~login.listening
    /\ login.pc = "waiting"
       => /\ login.listening
          /\ login.timeoutAt # NoTimer

\* The 60 second timer ended a login run after closing the server.
C12_Witness ==
    /\ last.op = "exit"
    /\ last.cause = "timeout"
    /\ last.closed
    /\ ~login.listening

----------------------------------------------------------------------------
(* Template cache: C13, C14, C15 *)

FetchedAtOf(meta) == DateGetTime(meta.obj.fetchedAt)

\* The metadata file is there, parses and carries a date.
MetaReadable(entry) ==
    /\ entry.meta.kind = "json"
    /\ HasProp(entry.meta.obj, "fetchedAt")
    /\ FetchedAtOf(entry.meta) # NaN

\* The clone-and-copy path of the step that wrote the record failed.
PrimaryFailed(rec) ==
    \/ rec.clone = "fail"
    \/ rec.cp = "fail"
    \/ rec.name \notin DOMAIN RemoteTemplates

\* C13: fetchTemplate downloads exactly when the cached directory is
\* missing, its metadata file is missing or unparseable, or fetchedAt is
\* more than 24 hours in the past; fetchedAt 25 hours old re-downloads,
\* fetchedAt 1 hour old returns the cached path with no clone, no network
\* call and the cache left unchanged.
C13_DownloadIffStale ==
    [][last'.op = "fetchTemplate" =>
         LET e == cache[last'.name] IN
         /\ last'.fetched <=>
               \/ ~e.exists
               \/ e.meta.kind = "nofile"
               \/ e.meta.kind = "garbage"
               \/ /\ MetaReadable(e)
                  /\ now - FetchedAtOf(e.meta) > 24 * 60
         /\ (MetaReadable(e) /\ now - FetchedAtOf(e.meta) = 25 * 60)
               => (last'.fetched /\ last'.clones = 1)
         /\ (e.exists /\ MetaReadable(e) /\ now - FetchedAtOf(e.meta) = 60)
               => ~last'.fetched
         /\ ~last'.fetched =>
               /\ last'.returned
               /\ last'.clones = 0
               /\ last'.fallbacks = 0
               /\ last'.requests = 0
               /\ cache' = cache]_vars

C13_Witness ==
    /\ last.op = "fetchTemplate"
    /\ ~last.fetched
    /\ last.returned
    /\ MetaReadable(cache[last.name])
    /\ last.start - FetchedAtOf(cache[last.name].meta) = 60

\* C14: the fallback download is attempted exactly when the clone-and-copy
\* path fails, and a fetchTemplate that returns after a download leaves
\* in the cached directory a metadata file with the fetch timestamp, the
\* template name and the source URL, the same on either path.
C14_FallbackAndMetadata ==
    [][(last'.op = "fetchTemplate" /\ last'.fetched) =>
         /\ last'.fallbacks = 1 <=> PrimaryFailed(last')
         /\ last'.fallbacks \in {0, 1}
         /\ last'.returned =>
               LET m == cache'[last'.name].meta IN
               /\ cache'[last'.name].exists
               /\ m.kind = "json"
               /\ DOMAIN m.obj = {"fetchedAt", "templateName", "source"}
               /\ m.obj.templateName = last'.name
               /\ m.obj.source = TEMPLATES_REPO_URL
               /\ FetchedAtOf(m) >= now
               /\ FetchedAtOf(m) <= now']_vars

C14_Witness ==
    /\ last.op = "fetchTemplate"
    /\ last.fetched
    /\ last.fallbacks = 1
    /\ last.returned
    /\ cache[last.name].meta.kind = "json"
    /\ cache[last.name].meta.obj.templateName = last.name

\* C15: when the clone path and the fallback download both fail,
\* fetchTemplate fails with "Template '<name>' not found or couldn't be
\* fetched" and returns no path, whether or not the listing of the
\* available template names succeeds.
C15_BothFailThrows ==
    [][(last'.op = "fetchTemplate" /\ last'.fetched
        /\ PrimaryFailed(last') /\ ~last'.downloaded) =>
         /\ ~last'.returned
         /\ last'.error = <<"Template '", last'.name,
                            "' not found or couldn't be fetched">>
         /\ last'.lists = 1]_vars

C15_Witness ==
    /\ last.op = "fetchTemplate"
    /\ last.fetched
    /\ PrimaryFailed(last)
    /\ ~last.downloaded
    /\ ~last.returned
    /\ last.lists = 1
    /\ ~last.listed

----------------------------------------------------------------------------
(* Sites: C16 *)

SiteOps == {"uploadSite", "createSite", "updateSite"}

\* The target is a file with another name than index.html or a directory
\* with no index.html directly inside it.
LacksIndexHtml(target) ==
    \/ target.kind = "file" /\ target.name # "index.html"
    \/ target.kind = "dir" /\ <<"index.html">> \notin target.files

\* The same, a file name counting as index.html in any letter case.
LacksIndexHtmlAnyCase(target) ==
    \/ /\ target.kind = "file"
       /\ target.name \notin {"index.html", "Index.html", "INDEX.HTML"}
    \/ target.kind = "dir" /\ <<"index.html">> \notin target.files

\* C16 as stated, read for a run that has a credential: for a file not
\* named index.html, or a directory with no index.html directly inside it,
\* uploadSite returns 'The upload must contain an index.html file' and
\* nothing is requested or uploaded.
C16_Original ==
    (last.op \in SiteOps /\ last.authed /\ LacksIndexHtml(project.target)) =>
        /\ last.upload = [error |-> MsgNeedsIndexHtml]
        /\ last.requests = <<>>

\* C16: for a file whose name is not index.html in any letter case, or a
\* directory with no index.html directly inside it, uploadSite requests
\* no upload key and uploads nothing, createSite and updateSite send no
\* create or update request, and with a credential at hand the error
\* returned by uploadSite is 'The upload must contain an index.html file'.
C16_NoIndexNoUpload ==
    (last.op \in SiteOps /\ LacksIndexHtmlAnyCase(project.target)) =>
        /\ last.requests = <<>>
        /\ last.effect = "none"
        /\ HasProp(last.upload, "error")
        /\ last.authed => last.upload.error = MsgNeedsIndexHtml
        /\ ~last.authed => last.upload.error = MsgNotAuthenticated
        /\ last.op = "createSite" => last.ret = <<"createSite", FALSE>>

C16_Witness ==
    /\ last.op = "createSite"
    /\ project.target.kind = "dir"
    /\ LacksIndexHtmlAnyCase(project.target)
    /\ last.authed
    /\ last.upload = [error |-> MsgNeedsIndexHtml]
    /\ last.requests = <<>>

----------------------------------------------------------------------------
(* Deployment: C17, C18, C19 *)

NoneGiven(o) ==
    /\ o.domain = Undefined
    /\ o.siteId = Undefined
    /\ o.buildCommand = Undefined
    /\ o.buildDir = Undefined

\* The configuration file that a call with options o looks at.
ConfigFileOf(o, proj) ==
    IF o.configPath = Undefined THEN proj.config ELSE proj.custom

Occurs(e, events) == \E i \in DOMAIN events : events[i] = e

\* orbiter.json is written, and before any build.
WrittenBeforeBuild(events) ==
    \E i \in DOMAIN events :
       /\ events[i] = EvWriteConfig
       /\ \A j \in DOMAIN events : events[j] = EvBuild => i < j

\* orbiter.json is not written before the build.
NotWrittenBeforeBuild(events) ==
    \A i \in DOMAIN events :
       events[i] = EvWriteConfig =>
          \E j \in DOMAIN events : j < i /\ events[j] = EvBuild

\* C17 as stated: without options an existing configuration file is used
\* as it is and a missing one is created before the build; with one of
\* the options the existing file is ignored and overwritten.
C17_Original ==
    [][last'.op = "deploySite" =>
         LET o == last'.opts
             f == ConfigFileOf(o, project)
         IN  /\ (NoneGiven(o) /\ f.kind = "json") =>
                   /\ last'.fromFile
                   /\ ~Occurs(EvPrompt, last'.events)
                   /\ NotWrittenBeforeBuild(last'.events)
             /\ (NoneGiven(o) /\ f.kind = "nofile") =>
                   /\ Occurs(EvPrompt, last'.events)
                   /\ WrittenBeforeBuild(last'.events)
             /\ (~NoneGiven(o) /\ f.kind # "nofile") =>
                   /\ ~last'.fromFile
                   /\ WrittenBeforeBuild(last'.events)
                   /\ ConfigFileOf(o, project').kind = "json"
                   /\ HasProp(ConfigFileOf(o, project').obj, "buildDir")
                   /\ ConfigFileOf(o, project').obj.buildDir
                         = IF o.buildDir = Undefined THEN "dist"
                           ELSE o.buildDir]_vars

\* C17: without options an existing configuration file that parses is
\* used as it is, with no prompt and no write before the build, and a
\* missing one is replaced by settings collected and saved to orbiter.json
\* in the working directory before the build; with one of the options the
\* file is ignored, and orbiter.json in the working directory, never the
\* file at configPath, is overwritten before the build, unless siteId is
\* given without domain and no such site is found: then nothing is
\* written, nothing is built and deploySite returns false.
C17_ConfigHandling ==
    [][last'.op = "deploySite" =>
         LET o == last'.opts
             f == ConfigFileOf(o, project)
         IN  /\ project'.custom = project.custom
             /\ (NoneGiven(o) /\ f.kind = "json") =>
                   /\ last'.fromFile
                   /\ ~Occurs(EvPrompt, last'.events)
                   /\ NotWrittenBeforeBuild(last'.events)
             /\ (NoneGiven(o) /\ f.kind = "nofile") =>
                   /\ Occurs(EvPrompt, last'.events)
                   /\ WrittenBeforeBuild(last'.events)
                   /\ project'.config.kind = "json"
             /\ ~NoneGiven(o) =>
                   /\ ~last'.fromFile
                   /\ \/ /\ WrittenBeforeBuild(last'.events)
                         /\ project'.config.kind = "json"
                         /\ project'.config.obj.buildDir
                               = IF o.buildDir = Undefined THEN "dist"
                                 ELSE o.buildDir
                      \/ /\ o.siteId # Undefined
                         /\ o.domain = Undefined
                         /\ ~Occurs(EvWriteConfig, last'.events)
                         /\ ~Occurs(EvBuild, last'.events)
                         /\ last'.ret = FALSE
                         /\ project' = project]_vars

C17_Witness ==
    /\ last.op = "deploySite"
    /\ ~NoneGiven(last.opts)
    /\ last.opts.configPath = Undefined
    /\ ~last.fromFile
    /\ WrittenBeforeBuild(last.events)
    /\ Occurs(EvBuild, last.events)
    /\ project.config.kind = "json"
    /\ project.config.obj.buildDir = last.opts.buildDir

\* C18 as stated, for deploySite: an orbiter.json that exists and does not
\* parse is treated as an absent one, the configuration being created
\* anew and the command not failing on the file.
C18_Original ==
    [][(last'.op = "deploySite" /\ NoneGiven(last'.opts)
        /\ ConfigFileOf(last'.opts, project).kind = "garbage") =>
         /\ ~last'.fromFile
         /\ WrittenBeforeBuild(last'.events)]_vars

\* C19 as stated: deploySite returns true and shows 'Site updated' or
\* 'Site deployed' only if the hosted API accepted the update or the
\* creation of the site.
C19_Original ==
    last.op = "deploySite" =>
        /\ last.ret = TRUE => last.effect \in {"created", "updated"}
        /\ (Occurs(MsgSiteUpdated, last.out)
             \/ Occurs(MsgSiteDeployed, last.out))
               => last.effect \in {"created", "updated"}

----------------------------------------------------------------------------
(* Sites: C20 *)

AuthenticatedOps ==
    {"createSite", "listSites", "listSites quiet", "updateSite",
     "deleteSite", "listVersions", "rollbackSite", "uploadSite",
     "deployToOrbiter"}

\* The lines and errors that tell the user to authenticate.
LoginHints == {MsgPleaseLogin, MsgNoTokens, MsgNoTokensRefresh}

\* The run recorded in rec told the user to authenticate.
ToldToAuthenticate(rec) ==
    \/ \E i \in DOMAIN rec.out : rec.out[i] \in LoginHints
    \/ rec.ret = <<"deployToOrbiter", [threw |-> MsgAuthRequired]>>

\* The run recorded in rec ended on an absent credential.
EndedUnauthenticated(rec) ==
    \/ ~rec.authed
    \/ rec.out # <<>> /\ rec.out[Len(rec.out)] = MsgPleaseLogin

----------------------------------------------------------------------------
(* Login callback: C21 *)

\* The callback recorded in rec carried no access token or the provider
\* did not accept its tokens.
RejectedCallback(rec) ==
    /\ rec.op = "callback"
    /\ \/ rec.access_token = Undefined
       \/ rec.session \in {"error", "throws"}

\* C21: a callback with no access token, or one whose tokens the provider
\* does not accept, is answered with an error status, writes nothing to
\* the credential file, sets no exit timer and leaves the login run as it
\* was, the listener accepting requests; the record is written only by a
\* callback whose tokens the provider accepted; and once login() has
\* returned the listener ends only by the exit of a successful callback
\* or by the 60 second timer.
C21_RejectedCallbackChangesNothing ==
    [][/\ RejectedCallback(last')
          => /\ last'.status \in {400, 500}
             /\ last'.writes = 0
             /\ tokenFile' = tokenFile
             /\ login'.successAt = login.successAt
             /\ login'.timeoutAt = login.timeoutAt
             /\ login'.pc = login.pc
             /\ login'.listening
       /\ (last'.op = "callback" /\ tokenFile' # tokenFile)
          => (last'.session = "ok" /\ last'.status = 200)
       /\ (login.pc = "waiting" /\ ~login'.listening)
          => /\ last'.op = "exit"
             /\ last'.cause \in {"success", "timeout"}
             /\ last'.cause = "success" => last'.stored]_vars

\* The provider rejected the tokens of a callback that arrived after
\* login() had returned: status 400, no exit timer, the listener waits.
C21_Witness ==
    /\ last.op = "callback"
    /\ last.session = "error"
    /\ last.status = 400
    /\ last.writes = 0
    /\ login.pc = "waiting"
    /\ login.listening
    /\ login.successAt = NoTimer

----------------------------------------------------------------------------
(* Deployment: C22 *)

\* The identifier of the new site was retrieved and written after the
\* build.
LinkedAfterBuild(events) ==
    \E i \in DOMAIN events :
       /\ events[i] = EvWriteConfig
       /\ \E j \in DOMAIN events : j < i /\ events[j] = EvBuild

\* C22 as stated: after a deploySite run that created a site and
\* retrieved its id, the configuration file that the next run reads (the
\* default orbiter.json or the file given as configPath) contains that
\* siteId.
C22_Original ==
    [][(/\ last'.op = "deploySite"
        /\ last'.ret = TRUE
        /\ last'.effect = "created"
        /\ LinkedAfterBuild(last'.events)) =>
         LET f == ConfigFileOf(last'.opts, project')
         IN  /\ f.kind = "json"
             /\ HasProp(f.obj, "siteId")
             /\ f.obj.siteId = SiteId]_vars

----------------------------------------------------------------------------
(* Server deployment: C23, C27 *)

ServerOps == {"deployServerCommand", "deploySite server"}

\* The hosted API was asked to deploy the function and answered with
\* the status that api stands for.
FunctionAnswered(rec, api) ==
    /\ rec.op \in ServerOps
    /\ rec.api = api
    /\ Occurs(ReqDeployFunction, rec.events)

\* C23: when the hosted API answers the deployment of a server function
\* with status 401, deployToOrbiter returns null and the command ends
\* without an error and without 'Server deployed', deployServerCommand
\* without writing orbiter.json; on another status that is not a success
\* deployToOrbiter throws and the deployment is reported as failed.
C23_PaidPlanEndsQuietly ==
    [][/\ FunctionAnswered(last', "reject")
          => /\ last'.ret \in {"returned", "true"}
             /\ Occurs(MsgPaidPlan, last'.out)
             /\ ~Occurs(MsgServerDeployed, last'.out)
             /\ ~Occurs(MsgServerFailed, last'.out)
             /\ last'.effect = "none"
             /\ remote' = remote
             /\ last'.op = "deployServerCommand"
                => /\ ~Occurs(EvWriteConfig, last'.events)
                   /\ project' = project
       /\ FunctionAnswered(last', "other")
          => /\ last'.ret \in {"threw", "false"}
             /\ Occurs(MsgServerFailed, last'.out)
             /\ ~Occurs(MsgServerDeployed, last'.out)
             /\ last'.effect = "none"
             /\ remote' = remote]_vars

\* deployServerCommand met status 401 in a project without orbiter.json,
\* where a success would have saved the configuration.
C23_Witness ==
    /\ FunctionAnswered(last, "reject")
    /\ last.op = "deployServerCommand"
    /\ last.ret = "returned"
    /\ last.source = "options"
    /\ project.config.kind = "nofile"

\* C27: deployServerCommand takes its configuration from the file when
\* the file exists and none of siteId, entryFile, buildDir, buildCommand
\* is given (from interactive setup when the file yields no siteId or
\* entryPath); otherwise from the options, without reading the file or
\* asking, when siteId, entryFile and buildDir are all given; otherwise
\* from interactive setup.  After a successful deployment orbiter.json is
\* written only if there was none; an existing one is never overwritten
\* and the file at configPath is never written.
C27_ServerConfigPrecedence ==
    [][last'.op = "deployServerCommand" =>
         LET o == last'.opts
             f == ConfigFileOf(o, project)
             given == hasAnyOptions(o)
             all == /\ o.siteId # Undefined
                    /\ o.entryFile # Undefined
                    /\ o.buildDir # Undefined
         IN  /\ (f.kind # "nofile" /\ ~given) =>
                   /\ Occurs(EvReadConfig, last'.events)
                   /\ last'.source
                         = IF /\ f.kind = "json"
                              /\ HasProp(f.obj, "siteId")
                              /\ HasProp(f.obj, "entryPath")
                           THEN "file" ELSE "interactive"
                   /\ last'.source = "file" =>
                         /\ ~Occurs(EvPrompt, last'.events)
                         /\ ~Occurs(ReqListSites, last'.events)
             /\ (~(f.kind # "nofile" /\ ~given) /\ all) =>
                   /\ last'.source = "options"
                   /\ ~Occurs(EvReadConfig, last'.events)
                   /\ ~Occurs(EvPrompt, last'.events)
                   /\ ~Occurs(ReqListSites, last'.events)
             /\ (~(f.kind # "nofile" /\ ~given) /\ ~all) =>
                   /\ last'.source = "interactive"
                   /\ ~Occurs(EvReadConfig, last'.events)
                   /\ Occurs(ReqListSites, last'.events)
                      \/ last'.ret = "threw"
             /\ project'.custom = project.custom
             /\ project.config.kind # "nofile" =>
                   /\ project'.config = project.config
                   /\ ~Occurs(EvWriteConfig, last'.events)
             /\ project.config.kind = "nofile" =>
                   IF last'.effect = "function"
                   THEN /\ Occurs(EvWriteConfig, last'.events)
                        /\ project'.config.kind = "json"
                        /\ project'.config.obj.siteId = SiteId
                   ELSE /\ project'.config = project.config
                        /\ ~Occurs(EvWriteConfig, last'.events)]_vars

\* All required options were given in a project that has an orbiter.json:
\* the options were used, the function was deployed and the file was left
\* as it was.
C27_Witness ==
    /\ last.op = "deployServerCommand"
    /\ last.source = "options"
    /\ last.opts.configPath = Undefined
    /\ last.effect = "function"
    /\ Occurs(MsgServerDeployed, last.out)
    /\ project.config = StoredServerConfig

----------------------------------------------------------------------------
(* Template cache: C24, C25, C28 *)

\* C24 as stated: when the fallback download succeeds the cached
\* directory holds every file of the remote template at its relative
\* path, at any depth, and nothing else.
C24_Original ==
    [][(last'.op = "fetchTemplate" /\ last'.downloaded) =>
         cache'[last'.name].files
            = TreeFiles(RemoteTemplates[last'.name])]_vars

\* C25 as stated: when fetchTemplate has finished a download attempt the
\* temporary clone directory it created is gone, whether the clone and
\* the copy succeeded or one of them failed.
C25_Original ==
    [][(last'.op = "fetchTemplate" /\ last'.fetched) =>
         tempDirs' = tempDirs]_vars

\* C28 as stated: a directory of the cache that fetchTemplate leaves with
\* a metadata file holds a complete copy of the template, and a download
\* that failed leaves no metadata file, so that the next fetchTemplate
\* downloads again.
C28_Original ==
    [][(last'.op = "fetchTemplate" /\ last'.fetched) =>
         LET e == cache'[last'.name] IN
         /\ e.meta.kind # "nofile" =>
               e.files = TreeFiles(RemoteTemplates[last'.name])
         /\ ~last'.returned =>
               (e.meta.kind = "nofile" /\ needsFetch(e, now'))]_vars

----------------------------------------------------------------------------
(* Credential resolver: C26, C29 *)

\* C26 as stated: after a successful refresh the record that the resolver
\* returns equals, field by field and created_at included, the record
\* that a load of the credential file then returns.
C26_Original ==
    [][(ResolverRan(last') /\ last'.prov.kind = "session") =>
         last'.result = getStoredTokens(tokenFile').value]_vars

\* C29 as stated: the resolver never returns an OAuth credential older
\* than 55 minutes: what it returns is absent, an API-key record, or an
\* OAuth record whose created_at is a valid timestamp at most 55 minutes
\* before the current time.
C29_Original ==
    ResolverRan(last) =>
       \/ ~last.result.present
       \/ last.result.tokens.keyType = "apikey"
       \/ /\ last.result.tokens.keyType = "oauth"
          /\ HasProp(last.result.tokens, "created_at")
          /\ DateGetTime(last.result.tokens.created_at) # NaN
          /\ now - DateGetTime(last.result.tokens.created_at)
                <= ExpiryMinutes

----------------------------------------------------------------------------
(* Scaffolding: C30 *)

\* C30 as stated: createTemplateApp shows "Client deployed to ..." and
\* the final "Server available at ..." only if the deploySite call for
\* the client succeeded; when deploySite returns false no success message
\* is shown and the command is reported as failed.
C30_Original ==
    last.op = "createTemplateApp" =>
       /\ (\/ Occurs(MsgClientDeployed, last.out)
           \/ Occurs(MsgServerAvailable, last.out))
             => last.deployRet = "true"
       /\ last.deployRet = "false" =>
             /\ ~Occurs(MsgClientDeployed, last.out)
             /\ ~Occurs(MsgServerAvailable, last.out)
             /\ Occurs(MsgFailedToCreate, last.out)


====
